---- MODULE Spec2Model ----
(***************************************************************************)
(* Transit policy evaluation of the OnlyCat integration:                   *)
(* custom_components/onlycat/data/policy.py, event.py and device.py, and   *)
(* the human activity sensor of binary_sensor_human.py.                    *)
(*                                                                         *)
(* Python values are modelled as follows.                                  *)
(*   None / a present value v : the sequences << >> and << v >>            *)
(*   a list                   : a sequence                                 *)
(*   an enum member           : the string of its name                     *)
(*   an aware datetime        : its wall clock, the tuple                  *)
(*                              << day, hour, minute, second, microsecond >>*)
(*   a raised exception       : the string "RAISE" as the call's outcome   *)
(***************************************************************************)
EXTENDS Integers, Sequences, FiniteSets, TLC

VARIABLES
    settings,                \* Device.settings (the two ignore flags)
    time_zone,               \* Device.time_zone, as its UTC offset in hours
    device_transit_policy,   \* the DeviceTransitPolicy bound to the device
    event,                   \* the Event last handed to an operation
    policy_result,           \* outcome of the last determine_policy_result
    criteria,                \* the RuleCriteria last handed to matches
    match_result,            \* outcome of the last RuleCriteria.matches
    time_range,              \* the TimeRange last handed to contains_timestamp
    at_timestamp,            \* the datetime last handed to contains_timestamp
    contains_result,         \* outcome of the last TimeRange.contains_timestamp
    api_payload,             \* the untyped policy payload last received
    criteria_payload,        \* the untyped criteria payload last parsed
    parsed,                  \* outcome of the last from_api_response
    dict_out,                \* outcome of the last to_dict
    reparsed,                \* outcome of from_api_response on dict_out
    device_transit_policy_id,  \* Device.device_transit_policy_id
    device_transit_policies,   \* Device.device_transit_policies
    active_policy,           \* Device.device_transit_policy as read after the last operation
    unlocked,                \* outcome of the last Device.is_unlocked_by_event
    event_payload,           \* the untyped event payload last received
    event_outcome,           \* outcome of Event.from_api_response on event_payload
    policy_outcome,          \* outcome of DeviceTransitPolicy.from_api_response on api_payload
    schema_warning,          \* whether that call logged a schema validation warning
    policy_update_listeners, \* Device._policy_update_listeners
    listener_calls,          \* the listener calls of the last policy update, in order
    update_outcome,          \* outcome of the last policy update call
    eval_policy,             \* the policy object a running evaluation has read
    eval_index,              \* the rule that evaluation looks at next, 0 when none runs
    is_on,                   \* OnlyCatHumanSensor._attr_is_on
    current_event,           \* OnlyCatHumanSensor._current_event
    last_completed_event_id, \* OnlyCatHumanSensor._last_completed_event_id
    completed_event_ids      \* history: the event ids an update with frame_count was handled for

\* the state of a Device beyond its settings and time zone
deviceVars == << device_transit_policy_id, device_transit_policies, active_policy, unlocked,
                policy_update_listeners, listener_calls, update_outcome,
                eval_policy, eval_index >>

\* the parses of untyped payloads
parseVars == << event_payload, event_outcome, policy_outcome, schema_warning >>

\* the human activity sensor
sensorVars == << is_on, current_event, last_completed_event_id, completed_event_ids >>

vars == << settings, time_zone, device_transit_policy, event, policy_result,
           criteria, match_result, time_range, at_timestamp, contains_result,
           api_payload, criteria_payload, parsed, dict_out, reparsed,
           deviceVars, parseVars, sensorVars >>

----------------------------------------------------------------------------
(* Python's None, truthiness and list helpers *)

None == << >>

Some(v) == << v >>

Get(o) == o[1]

\* bool(x) of an optional boolean: None and False are falsy
Truthy(o) == o # None /\ Get(o) = TRUE

Range(s) == { s[i] : i \in 1..Len(s) }

SeqsUpTo(S, n) == UNION { [1..k -> S] : k \in 0..n }

NotYet == "NOT_CALLED"

Raise == "RAISE"

\* the outcome of a call: an exception, or the value returned
Raised == [ raised |-> TRUE, ret |-> << >> ]

Returned(value) == [ raised |-> FALSE, ret |-> << value >> ]

CallNotMade == [ raised |-> FALSE, ret |-> << >> ]

\* no listener registered and no policy update call
NoListener ==
    /\ policy_update_listeners = << >>
    /\ listener_calls = << >>
    /\ update_outcome = CallNotMade

\* no evaluation under way
NoEvaluation ==
    /\ eval_policy = None
    /\ eval_index = 0

\* no device of the map kind and no is_unlocked_by_event call
NoDeviceCall ==
    /\ device_transit_policy_id = None
    /\ device_transit_policies = None
    /\ active_policy = None
    /\ unlocked = CallNotMade
    /\ NoListener
    /\ NoEvaluation

\* Event(): every attribute absent
NoEvent ==
    [ global_id |-> << >>, device_id |-> << >>, event_id |-> << >>,
      timestamp |-> << >>, frame_count |-> << >>, event_trigger_source |-> << >>,
      event_classification |-> << >>, poster_frame_index |-> << >>,
      access_token |-> << >>, rfid_codes |-> << >> ]

\* OnlyCatHumanSensor.__init__
NoSensor ==
    /\ is_on = FALSE
    /\ current_event = NoEvent
    /\ last_completed_event_id = << >>
    /\ completed_event_ids = { }

\* no payload handed to a parser
NoParseCall ==
    /\ event_payload = None
    /\ event_outcome = CallNotMade
    /\ policy_outcome = CallNotMade
    /\ schema_warning = FALSE

----------------------------------------------------------------------------
(* datetime: wall clock tuples << day, hour, minute, second, microsecond >>.
   Two aware datetimes that share their tzinfo compare by wall clock. *)

DtLess(a, b) ==
    \E k \in 1..5 : a[k] < b[k] /\ \A j \in 1..(k - 1) : a[j] = b[j]

DtLeq(a, b) == a = b \/ DtLess(a, b)

\* datetime.astimezone for a zone whose UTC offset is tz whole hours
astimezone(utc, tz) ==
    LET total == utc[1] * 24 + utc[2] + tz
    IN  << total \div 24, total % 24, utc[3], utc[4], utc[5] >>

\* datetime.replace(hour=, minute=, second=, microsecond=)
replace(dt, hour, minute, second, microsecond) ==
    << dt[1], hour, minute, second, microsecond >>

\* dt + timedelta(days=n)
plus_days(dt, n) == << dt[1] + n, dt[2], dt[3], dt[4], dt[5] >>

----------------------------------------------------------------------------
(* policy.py: TimeRange *)

TimeRange(sh, sm, eh, em) ==
    [ start_hour |-> sh, start_minute |-> sm, end_hour |-> eh, end_minute |-> em ]

\* a containment test without the shift for ranges that pass midnight
contains_timestamp_same_day(self, timestamp, timezone) ==
    LET event_time == astimezone(timestamp, timezone)
        start_time == replace(event_time, self.start_hour, self.start_minute, 0, 0)
        end_time   == replace(event_time, self.end_hour, self.end_minute, 59, 999999)
    IN  DtLeq(start_time, event_time) /\ DtLeq(event_time, end_time)

\* a containment test whose end is the first instant of the end minute
contains_timestamp_end_at_minute_start(self, timestamp, timezone) ==
    LET event_time == astimezone(timestamp, timezone)
        start_time == replace(event_time, self.start_hour, self.start_minute, 0, 0)
        end_time   == replace(event_time, self.end_hour, self.end_minute, 0, 0)
        overnight  == DtLess(end_time, start_time)
        start2     == IF overnight /\ DtLess(event_time, start_time)
                      THEN plus_days(start_time, -1) ELSE start_time
        end2       == IF overnight /\ ~DtLess(event_time, start_time)
                      THEN plus_days(end_time, 1) ELSE end_time
    IN  DtLeq(start2, event_time) /\ DtLeq(event_time, end2)

\* TimeRange.contains_timestamp(self, timestamp, timezone), timestamp present
contains_timestamp(self, timestamp, timezone) ==
    LET event_time == astimezone(timestamp, timezone)
        start_time == replace(event_time, self.start_hour, self.start_minute, 0, 0)
        end_time   == replace(event_time, self.end_hour, self.end_minute, 59, 999999)
        overnight  == DtLess(end_time, start_time)
        start2     == IF overnight /\ DtLess(event_time, start_time)
                      THEN plus_days(start_time, -1) ELSE start_time
        end2       == IF overnight /\ ~DtLess(event_time, start_time)
                      THEN plus_days(end_time, 1) ELSE end_time
    IN  DtLeq(start2, event_time) /\ DtLeq(event_time, end2)

----------------------------------------------------------------------------
(* policy.py: RuleCriteria.matches. The outcome is "True", "False" or Raise. *)

PyBool(b) == IF b THEN "True" ELSE "False"

\* x in lst, for an optional x and a list of present values
In(x, lst) == x # None /\ \E i \in 1..Len(lst) : lst[i] = Get(x)

\* all() in the place of any(): every code of the event must be listed
all_codes_in(event_codes, rfid_codes, i) ==
    \A n \in i..Len(event_codes) :
        \E k \in 1..Len(rfid_codes) : rfid_codes[k] = event_codes[n]

\* any(code in rfid_codes for code in event_codes), scanning from index i
RECURSIVE any_code_in(_, _, _)
any_code_in(event_codes, rfid_codes, i) ==
    IF i > Len(event_codes) THEN FALSE
    ELSE IF \E k \in 1..Len(rfid_codes) : rfid_codes[k] = event_codes[i] THEN TRUE
    ELSE any_code_in(event_codes, rfid_codes, i + 1)

\* any(tr.contains_timestamp(ts, tz) for tr in time_ranges), scanning from i
RECURSIVE any_range_contains(_, _, _, _)
any_range_contains(time_ranges, timestamp, timezone, i) ==
    IF i > Len(time_ranges) THEN FALSE
    ELSE IF contains_timestamp(time_ranges[i], timestamp, timezone) THEN TRUE
    ELSE any_range_contains(time_ranges, timestamp, timezone, i + 1)

\* the last statement of matches: not time_ranges or any(...)
matches_time(self, ev, timezone) ==
    IF self.time_ranges = << >> THEN "True"
    ELSE IF ev.timestamp = None THEN Raise      \* None.astimezone
    ELSE PyBool(any_range_contains(self.time_ranges, Get(ev.timestamp), timezone, 1))

matches_rfid(self, ev, timezone) ==
    IF self.rfid_codes = << >> THEN matches_time(self, ev, timezone)
    ELSE IF ev.rfid_codes = None THEN Raise     \* iterating None
    ELSE IF ~any_code_in(Get(ev.rfid_codes), self.rfid_codes, 1) THEN "False"
    ELSE matches_time(self, ev, timezone)

\* a matcher that takes flap and motion states for predicates no event meets
matches_with_state_predicates(self, ev, timezone) ==
    IF self.flap_states # << >> \/ self.motion_sensor_states # << >> THEN "False"
    ELSE IF /\ self.event_trigger_sources # << >>
            /\ ~In(ev.event_trigger_source, self.event_trigger_sources)
    THEN "False"
    ELSE IF /\ self.event_classifications # << >>
            /\ ~In(ev.event_classification, self.event_classifications)
    THEN "False"
    ELSE matches_rfid(self, ev, timezone)

matches(self, ev, timezone) ==
    IF /\ self.event_trigger_sources # << >>
       /\ ~In(ev.event_trigger_source, self.event_trigger_sources)
    THEN "False"
    ELSE IF /\ self.event_classifications # << >>
            /\ ~In(ev.event_classification, self.event_classifications)
    THEN "False"
    ELSE matches_rfid(self, ev, timezone)

----------------------------------------------------------------------------
(* policy.py: DeviceTransitPolicy.determine_policy_result *)

\* the result a deciding rule gives: rule.action.lock read through rule.action
rule_result(rule) ==
    IF rule.action = None THEN Raise            \* None.lock
    ELSE IF Truthy(Get(rule.action).lock) THEN "LOCKED" ELSE "UNLOCKED"

\* a fallback that reads the battery override in the place of idle_lock
idle_result_on_battery(transit_policy) ==
    IF Truthy(transit_policy.idle_lock_battery) THEN "LOCKED" ELSE "UNLOCKED"

\* a fallback that ignores idle_lock
idle_result_always_unlocked(transit_policy) == "UNLOCKED"

idle_result(transit_policy) ==
    IF Truthy(transit_policy.idle_lock) THEN "LOCKED" ELSE "UNLOCKED"

\* a loop that lets the last surviving rule decide instead of the first
scan_rules_last_match(transit_policy, rules, i, dev_settings, dev_time_zone, ev) ==
    LET surviving ==
            { k \in i..Len(rules) :
                /\ Truthy(rules[k].enabled)
                /\ ~( /\ dev_settings.ignore_flap_motion_rules
                      /\ Get(rules[k].criteria).flap_states # << >> )
                /\ ~( /\ dev_settings.ignore_motion_sensor_rules
                      /\ Get(rules[k].criteria).motion_sensor_states # << >> )
                /\ matches(Get(rules[k].criteria), ev, dev_time_zone) = "True" }
    IN  IF surviving = { } THEN idle_result(transit_policy)
        ELSE rule_result(rules[CHOOSE k \in surviving : \A m \in surviving : m <= k])

\* a loop that never reads the device's ignore flags
RECURSIVE scan_rules_no_suppression(_, _, _, _, _, _)
scan_rules_no_suppression(transit_policy, rules, i, dev_settings, dev_time_zone, ev) ==
    IF i > Len(rules) THEN idle_result(transit_policy)
    ELSE IF /\ Truthy(rules[i].enabled)
            /\ rules[i].criteria # None
            /\ matches(Get(rules[i].criteria), ev, dev_time_zone) = "True"
    THEN rule_result(rules[i])
    ELSE scan_rules_no_suppression(transit_policy, rules, i + 1, dev_settings,
                                   dev_time_zone, ev)

\* the for loop over transit_policy.rules, from index i, then the idle default
RECURSIVE scan_rules(_, _, _, _, _, _)
scan_rules(transit_policy, rules, i, dev_settings, dev_time_zone, ev) ==
    IF i > Len(rules) THEN idle_result(transit_policy)
    ELSE
    LET rule == rules[i]
        next == scan_rules(transit_policy, rules, i + 1, dev_settings, dev_time_zone, ev)
    IN  IF ~Truthy(rule.enabled) THEN next
        ELSE IF dev_settings.ignore_flap_motion_rules /\ rule.criteria = None
        THEN Raise                             \* None.flap_states
        ELSE IF /\ dev_settings.ignore_flap_motion_rules
                /\ Get(rule.criteria).flap_states # << >>
        THEN next
        ELSE IF dev_settings.ignore_motion_sensor_rules /\ rule.criteria = None
        THEN Raise                             \* None.motion_sensor_states
        ELSE IF /\ dev_settings.ignore_motion_sensor_rules
                /\ Get(rule.criteria).motion_sensor_states # << >>
        THEN next
        ELSE IF rule.criteria = None THEN next
        ELSE LET m == matches(Get(rule.criteria), ev, dev_time_zone)
             IN  IF m = Raise THEN Raise
                 ELSE IF m = "False" THEN next
                 ELSE rule_result(rule)

\* an evaluator without the guard for an absent transit_policy
determine_policy_result_unguarded(self, dev_settings, dev_time_zone, ev) ==
    IF self.transit_policy = None THEN "UNLOCKED"
    ELSE LET tp == Get(self.transit_policy)
         IN  IF tp.rules # None /\ Get(tp.rules) # << >>
             THEN scan_rules(tp, Get(tp.rules), 1, dev_settings, dev_time_zone, ev)
             ELSE idle_result(tp)

determine_policy_result(self, dev_settings, dev_time_zone, ev) ==
    IF self.transit_policy = None THEN "UNKNOWN"
    ELSE LET tp == Get(self.transit_policy)
         IN  IF tp.rules # None /\ Get(tp.rules) # << >>
             THEN scan_rules(tp, Get(tp.rules), 1, dev_settings, dev_time_zone, ev)
             ELSE idle_result(tp)

----------------------------------------------------------------------------
(* Untyped payloads (JSON). A key whose value may be a scalar or an array is
   Absent, Scalar(v) or Array(<<v1, ...>>); any other key is None or Some(v).
   dict.get returns None for an absent key and for a null value alike. *)

Absent == [ kind |-> "absent", items |-> << >> ]

Scalar(v) == [ kind |-> "scalar", items |-> << v >> ]

Array(vs) == [ kind |-> "array", items |-> vs ]

\* bool(v) of an int and of a str
IntTruthy(v) == v # 0

StrTruthy(v) == v # ""

----------------------------------------------------------------------------
(* event.py and policy.py: the enums, by wire value *)

\* an enum without _missing_: an undefined code is a ValueError
EventTriggerSource_strict(code) ==
    CASE code = 0 -> "MANUAL"
      [] code = 1 -> "REMOTE"
      [] code = 2 -> "INDOOR_MOTION"
      [] code = 3 -> "OUTDOOR_MOTION"
      [] OTHER    -> "ValueError"

\* EventTriggerSource(code), with _missing_
EventTriggerSource(code) ==
    CASE code = 0 -> "MANUAL"
      [] code = 1 -> "REMOTE"
      [] code = 2 -> "INDOOR_MOTION"
      [] code = 3 -> "OUTDOOR_MOTION"
      [] OTHER    -> "UNKNOWN"

\* EventTriggerSource member .value
EventTriggerSourceValue(member) ==
    CASE member = "MANUAL"         -> 0
      [] member = "REMOTE"         -> 1
      [] member = "INDOOR_MOTION"  -> 2
      [] member = "OUTDOOR_MOTION" -> 3
      [] member = "UNKNOWN"        -> -1

\* EventClassification(code), with _missing_
EventClassification(code) ==
    CASE code = 1  -> "CLEAR"
      [] code = 2  -> "SUSPICIOUS"
      [] code = 3  -> "CONTRABAND"
      [] code = 4  -> "HUMAN_ACTIVITY"
      [] code = 10 -> "REMOTE_UNLOCK"
      [] OTHER     -> "UNKNOWN"

EventClassificationValue(member) ==
    CASE member = "UNKNOWN"        -> 0
      [] member = "CLEAR"          -> 1
      [] member = "SUSPICIOUS"     -> 2
      [] member = "CONTRABAND"     -> 3
      [] member = "HUMAN_ACTIVITY" -> 4
      [] member = "REMOTE_UNLOCK"  -> 10

\* EventFlapstate(code): the enum is imported from event.py, whose definition
\* of it is not in the sources at hand; the wire table is the documented one
EventFlapstate(code) ==
    CASE code = 0 -> "CLOSED"
      [] code = 1 -> "OPEN_OUTWARD"
      [] code = 2 -> "OPEN_INWARD"
      [] code = 3 -> "INVALID"

EventFlapstateValue(member) ==
    CASE member = "CLOSED"       -> 0
      [] member = "OPEN_OUTWARD" -> 1
      [] member = "OPEN_INWARD"  -> 2
      [] member = "INVALID"      -> 3

\* EventMotionstate(code): as EventFlapstate
EventMotionstate(code) ==
    CASE code = 0 -> "UNKNOWN"
      [] code = 1 -> "NONE"
      [] code = 2 -> "INDOOR"
      [] code = 3 -> "OUTDOOR"

EventMotionstateValue(member) ==
    CASE member = "UNKNOWN" -> 0
      [] member = "NONE"    -> 1
      [] member = "INDOOR"  -> 2
      [] member = "OUTDOOR" -> 3

\* SoundAction(value), with _missing_
SoundAction(value) ==
    IF value \in { "affirm", "alarm", "angry-meow", "bell", "choir", "coin",
                   "deny", "fanfare", "success", "unknown" }
    THEN value ELSE "unknown"

----------------------------------------------------------------------------
(* policy.py: TimeRange.from_api_response and the f-string of to_dict.
   The string "HH:MM-HH:MM" is the sequence of its "-" separated parts, each
   the sequence of its ":" separated parts, each a sequence of digits. *)

\* int(digits)
RECURSIVE int_of(_)
int_of(digits) ==
    IF digits = << >> THEN 0
    ELSE 10 * int_of(SubSeq(digits, 1, Len(digits) - 1)) + digits[Len(digits)]

\* f"{n:02d}"
RECURSIVE format_02d(_)
format_02d(n) ==
    IF n < 10 THEN << 0, n >>
    ELSE IF n < 100 THEN << n \div 10, n % 10 >>
    ELSE Append(format_02d(n \div 10), n % 10)

\* the unpacking of the two splits and int() fail on any other shape
time_range_str_raises(str) ==
    \/ Len(str) # 2
    \/ \E p \in 1..Len(str) : Len(str[p]) # 2
    \/ \E p \in 1..Len(str) : \E q \in 1..Len(str[p]) : str[p][q] = << >>

TimeRange_from_api_response(str) ==
    TimeRange(int_of(str[1][1]), int_of(str[1][2]),
              int_of(str[2][1]), int_of(str[2][2]))

time_range_format(tr) ==
    << << format_02d(tr.start_hour), format_02d(tr.start_minute) >>,
       << format_02d(tr.end_hour), format_02d(tr.end_minute) >> >>

\* bool(str) of a time range string: "" is the one part << << << >> >> >>
TimeStrTruthy(str) == str # << << << >> >> >>

----------------------------------------------------------------------------
(* policy.py: map_api_list_or_obj. The mapper callable is passed by name. *)

\* mapper(obj)
call(mapper, obj) ==
    CASE mapper = "EventTriggerSource"          -> EventTriggerSource(obj)
      [] mapper = "EventClassification"         -> EventClassification(obj)
      [] mapper = "EventFlapstate"              -> EventFlapstate(obj)
      [] mapper = "EventMotionstate"            -> EventMotionstate(obj)
      [] mapper = "TimeRange.from_api_response" -> TimeRange_from_api_response(obj)
      [] mapper = "lambda x: x"                 -> obj

\* bool(obj) of the scalar a mapper is given: an int, a time range str, a str
truthy(mapper, obj) ==
    CASE mapper = "TimeRange.from_api_response" -> TimeStrTruthy(obj)
      [] mapper = "lambda x: x"                 -> StrTruthy(obj)
      [] OTHER                                  -> IntTruthy(obj)

map_api_list_or_obj(api_obj, mapper) ==
    IF api_obj.kind = "array"
    THEN [ i \in 1..Len(api_obj.items) |-> call(mapper, api_obj.items[i]) ]
    ELSE IF api_obj.kind = "scalar" /\ truthy(mapper, api_obj.items[1])
    THEN << call(mapper, api_obj.items[1]) >>
    ELSE << >>

----------------------------------------------------------------------------
(* policy.py: the from_api_response family. A payload object is a record of
   its keys; null_keys names the keys present with a null value. The
   operators give the returned value; the *_raises operators say when the
   call raises instead. *)

RuleAction_from_api_response(api_action) ==
    IF api_action = None THEN None
    ELSE LET a == Get(api_action)
         IN  Some([ lock             |-> a.lock,
                    lockout_duration |-> a.lockoutDuration,
                    sound            |-> IF a.sound # None /\ StrTruthy(Get(a.sound))
                                         THEN Some(SoundAction(Get(a.sound)))
                                         ELSE None,
                    final            |-> None ])

RuleCriteria_from_api_response(api_criteria) ==
    IF api_criteria = None THEN None
    ELSE LET c == Get(api_criteria)
         IN  Some([ event_trigger_sources |->
                        map_api_list_or_obj(c.eventTriggerSource, "EventTriggerSource"),
                    event_classifications |->
                        map_api_list_or_obj(c.eventClassification, "EventClassification"),
                    time_ranges |->
                        map_api_list_or_obj(c.timeRange, "TimeRange.from_api_response"),
                    rfid_codes |-> map_api_list_or_obj(c.rfidCode, "lambda x: x"),
                    rfid_timeout |-> c.rfidTimeout,
                    flap_states |-> map_api_list_or_obj(c.flapState, "EventFlapstate"),
                    motion_sensor_states |->
                        map_api_list_or_obj(c.motionSensorState, "EventMotionstate") ])

\* a time range string that cannot be split and converted
RuleCriteria_from_api_response_raises(api_criteria) ==
    /\ api_criteria # None
    /\ LET tr == Get(api_criteria).timeRange
       IN  \/ tr.kind = "array"
              /\ \E i \in 1..Len(tr.items) : time_range_str_raises(tr.items[i])
           \/ tr.kind = "scalar"
              /\ TimeStrTruthy(tr.items[1])
              /\ time_range_str_raises(tr.items[1])

\* a parse without the default of True
Rule_from_api_rule_no_default(api_rule) ==
    [ action      |-> RuleAction_from_api_response(api_rule.action),
      criteria    |-> RuleCriteria_from_api_response(api_rule.criteria),
      description |-> api_rule.description,
      enabled     |-> api_rule.enabled ]

\* api_rule.get("enabled", True): the default applies to an absent key only
Rule_from_api_rule(api_rule) ==
    [ action      |-> RuleAction_from_api_response(api_rule.action),
      criteria    |-> RuleCriteria_from_api_response(api_rule.criteria),
      description |-> api_rule.description,
      enabled     |-> IF api_rule.enabled = None THEN Some(TRUE)
                      ELSE api_rule.enabled ]

TransitPolicy_from_api_response(api_policy) ==
    IF api_policy = None THEN None
    ELSE LET t == Get(api_policy)
         IN  Some([ rules |-> IF t.rules # None /\ Get(t.rules) # << >>
                              THEN Some([ i \in 1..Len(Get(t.rules)) |->
                                              Rule_from_api_rule(Get(t.rules)[i]) ])
                              ELSE None,
                    idle_lock         |-> t.idleLock,
                    idle_lock_battery |-> t.idleLockBattery,
                    ux                |-> t.ux ])

\* the codes of a list-or-scalar value all lie in the schema's enum
codes_in_enum(api_obj, enum) ==
    \A i \in 1..Len(api_obj.items) : api_obj.items[i] \in enum

\* the rule object of the schema: criteria and action required, codes in
\* their enums (the payload representation fixes the types)
rule_valid(api_rule) ==
    /\ api_rule.criteria # None
    /\ api_rule.action # None
    /\ LET c == Get(api_rule.criteria)
       IN  /\ codes_in_enum(c.eventTriggerSource, { 0, 1, 2, 3 })
           /\ codes_in_enum(c.eventClassification, { 0, 1, 2, 3, 4, 10 })
           /\ codes_in_enum(c.motionSensorState, { 0, 1, 2, 3 })
           /\ codes_in_enum(c.flapState, { 0, 1, 2, 3 })

\* validate(instance=api_policy, schema=DEVICE_POLICY_SCHEMA): TRUE when it
\* returns, FALSE when it raises ValidationError
validate(instance) ==
    \/ instance.transitPolicy = None
    \/ Get(instance.transitPolicy).rules = None
    \/ \A i \in 1..Len(Get(Get(instance.transitPolicy).rules)) :
           rule_valid(Get(Get(instance.transitPolicy).rules)[i])

\* a parser for which a schema violation is a hard gate
DeviceTransitPolicy_from_api_response_gated(api_policy) ==
    IF api_policy = None \/ Get(api_policy).deviceTransitPolicyId = None THEN None
    ELSE IF ~validate(Get(api_policy)) THEN None
    ELSE LET p == Get(api_policy)
         IN  Some([ device_transit_policy_id |-> Get(p.deviceTransitPolicyId),
                    device_id                |-> Get(p.deviceId),
                    name                     |-> p.name,
                    transit_policy           |->
                        TransitPolicy_from_api_response(p.transitPolicy) ])

\* DeviceTransitPolicy.from_api_response: None, or the policy constructed.
\* validate() only logs.
DeviceTransitPolicy_from_api_response(api_policy) ==
    IF api_policy = None \/ Get(api_policy).deviceTransitPolicyId = None THEN None
    ELSE LET p == Get(api_policy)
         IN  Some([ device_transit_policy_id |-> Get(p.deviceTransitPolicyId),
                    device_id                |-> Get(p.deviceId),
                    name                     |-> p.name,
                    transit_policy           |->
                        TransitPolicy_from_api_response(p.transitPolicy) ])

\* api_policy["deviceId"] of an absent key, or a rule's time range string
DeviceTransitPolicy_from_api_response_raises(api_policy) ==
    /\ api_policy # None
    /\ Get(api_policy).deviceTransitPolicyId # None
    /\ \/ Get(api_policy).deviceId = None
       \/ LET t == Get(api_policy).transitPolicy
          IN  /\ t # None
              /\ Get(t).rules # None
              /\ \E i \in 1..Len(Get(Get(t).rules)) :
                     RuleCriteria_from_api_response_raises(Get(Get(t).rules)[i].criteria)

----------------------------------------------------------------------------
(* policy.py: the to_dict family *)

RuleAction_to_dict(self) ==
    [ lock            |-> self.lock,
      sound           |-> self.sound,
      lockoutDuration |-> self.lockout_duration,
      final           |-> self.final ]

\* every non-empty list as an array
compact_always_array(values) ==
    IF values = << >> THEN Absent ELSE Array(values)

\* a one element list as the bare value, a longer one as an array
compact(values) ==
    IF values = << >> THEN Absent
    ELSE IF Len(values) = 1 THEN Scalar(values[1])
    ELSE Array(values)

RuleCriteria_to_dict(self) ==
    [ rfidCode   |-> IF self.rfid_codes # << >> THEN Array(self.rfid_codes) ELSE Absent,
      timeRange  |-> compact([ i \in 1..Len(self.time_ranges) |->
                                   time_range_format(self.time_ranges[i]) ]),
      eventTriggerSource  |->
          compact([ i \in 1..Len(self.event_trigger_sources) |->
                        EventTriggerSourceValue(self.event_trigger_sources[i]) ]),
      eventClassification |->
          compact([ i \in 1..Len(self.event_classifications) |->
                        EventClassificationValue(self.event_classifications[i]) ]),
      rfidTimeout |-> self.rfid_timeout,
      flapState   |-> compact([ i \in 1..Len(self.flap_states) |->
                                    EventFlapstateValue(self.flap_states[i]) ]),
      motionSensorState |->
          compact([ i \in 1..Len(self.motion_sensor_states) |->
                        EventMotionstateValue(self.motion_sensor_states[i]) ]) ]

\* self.criteria.to_dict() and self.action.to_dict() of None
Rule_to_dict_raises(self) == self.criteria = None \/ self.action = None

Rule_to_dict(self) ==
    [ criteria    |-> Some(RuleCriteria_to_dict(Get(self.criteria))),
      action      |-> Some(RuleAction_to_dict(Get(self.action))),
      enabled     |-> self.enabled,
      description |-> IF self.description # None /\ StrTruthy(Get(self.description))
                      THEN self.description ELSE None ]

TransitPolicy_to_dict_raises(self) ==
    /\ self.rules # None
    /\ \E i \in 1..Len(Get(self.rules)) : Rule_to_dict_raises(Get(self.rules)[i])

TransitPolicy_to_dict(self) ==
    [ rules |-> IF self.rules # None /\ Get(self.rules) # << >>
                THEN Some([ i \in 1..Len(Get(self.rules)) |->
                                Rule_to_dict(Get(self.rules)[i]) ])
                ELSE Some(<< >>),
      idleLock        |-> self.idle_lock,
      idleLockBattery |-> self.idle_lock_battery,
      ux              |-> IF self.ux # None /\ Get(self.ux) # { } THEN self.ux ELSE None,
      null_keys       |-> { k \in { "idleLock", "idleLockBattery" } :
                              \/ k = "idleLock" /\ self.idle_lock = None
                              \/ k = "idleLockBattery" /\ self.idle_lock_battery = None } ]

DeviceTransitPolicy_to_dict_raises(self) ==
    self.transit_policy # None /\ TransitPolicy_to_dict_raises(Get(self.transit_policy))

\* the keys deviceTransitPolicyId, transitPolicy and name; deviceId is not one
DeviceTransitPolicy_to_dict(self) ==
    [ deviceTransitPolicyId |-> Some(self.device_transit_policy_id),
      deviceId              |-> None,
      transitPolicy |-> IF self.transit_policy # None
                        THEN Some(TransitPolicy_to_dict(Get(self.transit_policy)))
                        ELSE None,
      name          |-> self.name,
      null_keys     |-> { k \in { "transitPolicy", "name" } :
                            \/ k = "transitPolicy" /\ self.transit_policy = None
                            \/ k = "name" /\ self.name = None } ]

----------------------------------------------------------------------------
(* event.py: Event.from_api_response. An ISO timestamp string is modelled by
   whether datetime.fromisoformat accepts it and the instant it denotes. *)

IsoTimestamp(day, hour, minute, second, microsecond) ==
    [ wellformed |-> TRUE, instant |-> << day, hour, minute, second, microsecond >> ]

\* "if not api_event": None and the empty dict
api_event_falsy(api_event) ==
    \/ api_event = None
    \/ \A k \in DOMAIN Get(api_event) : Get(api_event)[k] = None

Event_from_api_response_raises(api_event) ==
    /\ ~api_event_falsy(api_event)
    /\ Get(api_event).timestamp # None
    /\ ~Get(Get(api_event).timestamp).wellformed

Event_from_api_response(api_event) ==
    IF api_event_falsy(api_event) THEN None
    ELSE LET e == Get(api_event)
         IN  Some([ global_id   |-> e.globalId,
                    device_id   |-> e.deviceId,
                    event_id    |-> e.eventId,
                    timestamp   |-> IF e.timestamp # None
                                    THEN Some(Get(e.timestamp).instant) ELSE None,
                    frame_count |-> e.frameCount,
                    event_trigger_source |->
                        IF e.eventTriggerSource # None /\ IntTruthy(Get(e.eventTriggerSource))
                        THEN Some(EventTriggerSource(Get(e.eventTriggerSource)))
                        ELSE None,
                    event_classification |->
                        IF e.eventClassification # None /\ IntTruthy(Get(e.eventClassification))
                        THEN Some(EventClassification(Get(e.eventClassification)))
                        ELSE None,
                    poster_frame_index |-> e.posterFrameIndex,
                    access_token       |-> e.accessToken,
                    rfid_codes         |-> e.rfidCodes ])

----------------------------------------------------------------------------
(* device.py: Device. device_transit_policies is a dict, modelled as the
   function from its keys to its values; a bool | None result is None or
   Some(b). *)

\* a property that answers with any stored policy when the id is no key
Device_device_transit_policy_any(policies, policy_id) ==
    IF policies = None \/ DOMAIN Get(policies) = { } \/ policy_id = None THEN None
    ELSE IF Get(policy_id) \in DOMAIN Get(policies)
    THEN Some(Get(policies)[Get(policy_id)])
    ELSE Some(Get(policies)[CHOOSE k \in DOMAIN Get(policies) : TRUE])

\* the property Device.device_transit_policy
Device_device_transit_policy(policies, policy_id) ==
    IF policies = None \/ DOMAIN Get(policies) = { } \/ policy_id = None THEN None
    ELSE IF Get(policy_id) \in DOMAIN Get(policies)
    THEN Some(Get(policies)[Get(policy_id)])
    ELSE None

\* the check without the early return for a remote trigger
is_unlocked_by_event_no_bypass(policies, policy_id, dev_settings, dev_time_zone, ev) ==
    LET dtp == Device_device_transit_policy(policies, policy_id)
    IN  IF dtp = None THEN Raised
        ELSE LET r == determine_policy_result(Get(dtp), dev_settings, dev_time_zone, ev)
             IN  IF r = Raise THEN Raised
                 ELSE IF r = "UNLOCKED" THEN Returned(Some(TRUE))
                 ELSE IF r = "LOCKED" THEN Returned(Some(FALSE))
                 ELSE Returned(None)

\* Device.is_unlocked_by_event. PolicyResult is imported from .pet and taken
\* to be the PolicyResult of policy.py.
is_unlocked_by_event(policies, policy_id, dev_settings, dev_time_zone, ev) ==
    IF ev.event_trigger_source = Some("REMOTE") THEN Returned(Some(TRUE))
    ELSE LET dtp == Device_device_transit_policy(policies, policy_id)
         IN  IF dtp = None THEN Raised          \* None.determine_policy_result
             ELSE LET r == determine_policy_result(Get(dtp), dev_settings,
                                                   dev_time_zone, ev)
                  IN  IF r = Raise THEN Raised
                      ELSE IF r = "UNLOCKED" THEN Returned(Some(TRUE))
                      ELSE IF r = "LOCKED" THEN Returned(Some(FALSE))
                      ELSE Returned(None)

\* a time zone name: whether zoneinfo knows it, and its UTC offset in hours
ZoneName(offset) == [ found |-> TRUE, offset |-> offset ]

UnknownZoneName == [ found |-> FALSE, offset |-> 0 ]

\* Device.from_api_response(api_device, config_entry, device_id)
Device_from_api_response(api_device, device_id) ==
    IF api_device = None THEN None
    ELSE LET d  == Get(api_device)
             id == IF d.deviceId # None THEN d.deviceId ELSE device_id
         IN  IF id = None THEN None
             ELSE Some([ device_id |-> Get(id),
                         time_zone |-> IF d.timeZone # None /\ Get(d.timeZone).found
                                       THEN Get(d.timeZone).offset
                                       ELSE 0,
                         device_transit_policy_id |-> d.deviceTransitPolicyId,
                         device_transit_policies  |-> None,
                         settings                 |-> None,
                         policy_update_listeners  |-> << >> ])

\* dict.update({key: value})
dict_update(d, key, value) ==
    [ k \in DOMAIN d \cup { key } |-> IF k = key THEN value ELSE d[k] ]

\* Device.update_device_transit_policy: the map after the call
update_device_transit_policy(policies, transit_policy) ==
    Some(dict_update(IF policies = None THEN << >> ELSE Get(policies),
                     transit_policy.device_transit_policy_id, transit_policy))

\* the loop over fields(self) at _policy_update_listeners: the parsed device
\* carries a list, never None, so the device's own list is replaced by it
copied_listeners(own_listeners, updated_listeners) == updated_listeners

\* a listener list walked from its end
call_listeners_reversed(listeners, policies) ==
    [ i \in 1..Len(listeners) |->
          [ listener |-> listeners[Len(listeners) + 1 - i], saw |-> policies ] ]

\* the loop over Device._policy_update_listeners: each listener is called
\* once, in list order, and finds the map as it is at that moment
call_listeners(listeners, policies) ==
    [ i \in 1..Len(listeners) |-> [ listener |-> listeners[i], saw |-> policies ] ]

\* Device.add_policy_update_listener: the list after the call
add_policy_update_listener(listeners, listener) == Append(listeners, listener)

----------------------------------------------------------------------------
(* Bounded inputs: payloads as the API delivers them *)

MaxRules == 2

\* the string f"{sh:02d}:{sm:02d}-{eh:02d}:{em:02d}"
TimeStr(sh, sm, eh, em) ==
    << << << sh \div 10, sh % 10 >>, << sm \div 10, sm % 10 >> >>,
       << << eh \div 10, eh % 10 >>, << em \div 10, em % 10 >> >> >>

ApiCriteria(trigger, classification, rfid, range, motion, flap) ==
    [ eventTriggerSource  |-> trigger,
      eventClassification |-> classification,
      rfidCode            |-> rfid,
      rfidTimeout         |-> None,
      timeRange           |-> range,
      motionSensorState   |-> motion,
      flapState           |-> flap ]

ApiAction(lock, final) ==
    [ lock |-> lock, sound |-> None, lockoutDuration |-> None, final |-> final ]

ApiRule(api_criteria, api_action, enabled) ==
    [ criteria    |-> Some(api_criteria),
      action      |-> Some(api_action),
      description |-> None,
      enabled     |-> enabled ]

ApiTransitPolicy(rules, idle_lock) ==
    [ rules |-> rules, idleLock |-> idle_lock, idleLockBattery |-> Some(TRUE),
      ux |-> None, null_keys |-> { } ]

ApiPolicy(id, api_transit_policy) ==
    [ deviceTransitPolicyId |-> Some(id),
      deviceId              |-> Some("OC-000000000000"),
      name                  |-> Some("policy"),
      transitPolicy         |-> api_transit_policy,
      null_keys             |-> { } ]

ApiEvent(id, timestamp, trigger, classification, rfid_codes) ==
    [ globalId |-> Some(id), deviceId |-> Some("OC-000000000000"),
      eventId |-> Some(id), timestamp |-> timestamp, frameCount |-> None,
      eventTriggerSource |-> trigger, eventClassification |-> classification,
      posterFrameIndex |-> None, accessToken |-> Some("0000000"),
      rfidCodes |-> rfid_codes ]

\* criteria payloads of the rules a device is given
AnyCriteria == ApiCriteria(Absent, Absent, Absent, Absent, Absent, Absent)

FlapCriteria == ApiCriteria(Absent, Absent, Absent, Absent, Absent, Array(<< 1, 2 >>))

MotionCriteria == ApiCriteria(Absent, Absent, Absent, Absent, Scalar(2), Absent)

ContrabandCriteria ==
    ApiCriteria(Scalar(3), Array(<< 2, 3 >>), Absent, Absent, Absent, Absent)

ExitCriteria ==
    ApiCriteria(Scalar(2), Absent, Array(<< "A", "B" >>), Absent, Absent, Absent)

NightCriteria ==
    ApiCriteria(Absent, Absent, Absent, Scalar(TimeStr(22, 0, 2, 0)), Absent, Absent)

DeviceCriteria ==
    { AnyCriteria, FlapCriteria, MotionCriteria, ContrabandCriteria, ExitCriteria,
      NightCriteria }

DeviceRules ==
    { ApiRule(c, ApiAction(Some(lock), None), None) :
          c \in DeviceCriteria, lock \in BOOLEAN }
    \cup { ApiRule(AnyCriteria, ApiAction(Some(TRUE), None), Some(FALSE)),
           ApiRule(FlapCriteria, ApiAction(Some(TRUE), None), Some(FALSE)),
           ApiRule(ExitCriteria, ApiAction(Some(FALSE), None), Some(FALSE)),
           ApiRule(AnyCriteria, ApiAction(None, Some(TRUE)), Some(TRUE)),
           ApiRule(ExitCriteria, ApiAction(Some(TRUE), None), Some(TRUE)) }

DevicePolicies ==
    { ApiPolicy(1, None) }
    \cup { ApiPolicy(1, Some(ApiTransitPolicy(None, Some(idle)))) : idle \in BOOLEAN }
    \cup { ApiPolicy(1, Some(ApiTransitPolicy(Some(rules), Some(idle)))) :
               rules \in SeqsUpTo(DeviceRules, MaxRules), idle \in BOOLEAN }

DeviceEvents ==
    { ApiEvent(1, Some(IsoTimestamp(1, 8, 15, 21, 0)), Some(2), Some(1), Some(<< "A" >>)),
      ApiEvent(2, Some(IsoTimestamp(1, 21, 30, 0, 0)), Some(3), Some(2), Some(<< "A" >>)),
      ApiEvent(3, Some(IsoTimestamp(1, 12, 0, 0, 0)), Some(3), Some(1), Some(<< "C" >>)),
      ApiEvent(4, Some(IsoTimestamp(1, 23, 30, 0, 0)), Some(0), Some(0), Some(<< >>)),
      ApiEvent(5, Some(IsoTimestamp(1, 12, 0, 0, 0)), Some(1), Some(10), Some(<< >>)) }

DeviceSettings ==
    [ ignore_flap_motion_rules : BOOLEAN, ignore_motion_sensor_rules : BOOLEAN ]

\* UTC offsets, in hours, of the zones a device is in
DeviceTimeZones == { 2 }

----------------------------------------------------------------------------
(* The device: a policy received and bound, then events evaluated *)

\* no pure operation has been applied yet
NothingCalled ==
    /\ criteria = None
    /\ match_result = NotYet
    /\ time_range = None
    /\ at_timestamp = None
    /\ contains_result = NotYet
    /\ criteria_payload = None
    /\ parsed = None
    /\ dict_out = None
    /\ reparsed = CallNotMade
    /\ NoDeviceCall
    /\ NoParseCall
    /\ NoSensor

Init ==
    /\ settings \in DeviceSettings
    /\ time_zone \in DeviceTimeZones
    /\ api_payload \in { Some(p) : p \in DevicePolicies }
    /\ device_transit_policy = Get(DeviceTransitPolicy_from_api_response(api_payload))
    /\ event = None
    /\ policy_result = NotYet
    /\ NothingCalled

\* an event arrives and the bound policy decides on it
DeterminePolicyResult(api_event) ==
    /\ event' = Event_from_api_response(Some(api_event))
    /\ policy_result' =
           determine_policy_result(device_transit_policy, settings, time_zone, Get(event'))
    /\ UNCHANGED << settings, time_zone, device_transit_policy, api_payload,
                    criteria, match_result, time_range, at_timestamp, contains_result,
                    criteria_payload, parsed, dict_out, reparsed >>
    /\ UNCHANGED << deviceVars, parseVars, sensorVars >>

Next == \E api_event \in DeviceEvents : DeterminePolicyResult(api_event)

Spec == Init /\ [][Next]_vars

----------------------------------------------------------------------------
(* What the claims speak of, stated without the evaluator's loop *)

Evaluated == policy_result # NotYet

HasTransitPolicy == device_transit_policy.transit_policy # None

BoundTransitPolicy == Get(device_transit_policy.transit_policy)

BoundRules ==
    IF BoundTransitPolicy.rules = None THEN << >> ELSE Get(BoundTransitPolicy.rules)

\* minute of the local day of a UTC wall clock in a zone tz hours ahead
LocalMinuteOfDay(utc, tz) == ((utc[2] + tz) % 24) * 60 + utc[3]

\* a clock interval of whole minutes, wrapping over midnight when start > end
InClockRange(tr, minute_of_day) ==
    LET start == tr.start_hour * 60 + tr.start_minute
        end   == tr.end_hour * 60 + tr.end_minute
    IN  IF start <= end
        THEN start <= minute_of_day /\ minute_of_day <= end
        ELSE start <= minute_of_day \/ minute_of_day <= end

\* the four conditions of a criteria match, for an event with a timestamp and
\* a list of codes
CriteriaMatch(c, e, tz) ==
    /\ \/ c.event_trigger_sources = << >>
       \/ /\ e.event_trigger_source # None
          /\ Get(e.event_trigger_source) \in Range(c.event_trigger_sources)
    /\ \/ c.event_classifications = << >>
       \/ /\ e.event_classification # None
          /\ Get(e.event_classification) \in Range(c.event_classifications)
    /\ \/ c.rfid_codes = << >>
       \/ Range(c.rfid_codes) \cap Range(Get(e.rfid_codes)) # { }
    /\ \/ c.time_ranges = << >>
       \/ \E tr \in Range(c.time_ranges) :
              InClockRange(tr, LocalMinuteOfDay(Get(e.timestamp), tz))

RuleEnabled(rule) == rule.enabled = Some(TRUE)

RuleSuppressed(rule) ==
    \/ settings.ignore_flap_motion_rules /\ Get(rule.criteria).flap_states # << >>
    \/ settings.ignore_motion_sensor_rules /\ Get(rule.criteria).motion_sensor_states # << >>

RuleNotSuppressed(rule) == ~RuleSuppressed(rule)

RuleMatches(rule) == CriteriaMatch(Get(rule.criteria), Get(event), time_zone)

\* enabled, not suppressed by a device flag, and matching the event
RuleDecides(rule) == RuleEnabled(rule) /\ RuleNotSuppressed(rule) /\ RuleMatches(rule)

RuleOutcome(rule) ==
    IF Get(rule.action).lock = Some(TRUE) THEN "LOCKED" ELSE "UNLOCKED"

IdleOutcome == IF BoundTransitPolicy.idle_lock = Some(TRUE) THEN "LOCKED" ELSE "UNLOCKED"

\* C1: with a transit_policy set, the result is the outcome of the lowest-index
\* rule that is enabled, not suppressed by a device flag and matching the
\* event; no later rule changes it, with or without a final flag.
C1_FirstMatchWins ==
    (Evaluated /\ HasTransitPolicy) =>
        \A i \in 1..Len(BoundRules) :
            ( /\ RuleDecides(BoundRules[i])
              /\ \A j \in 1..(i - 1) : ~RuleDecides(BoundRules[j]) )
            => policy_result = RuleOutcome(BoundRules[i])

\* two rules decide, the first locks, the second unlocks, neither is final
C1_Witness ==
    /\ Evaluated /\ HasTransitPolicy
    /\ Len(BoundRules) >= 2
    /\ RuleDecides(BoundRules[1]) /\ RuleOutcome(BoundRules[1]) = "LOCKED"
    /\ RuleDecides(BoundRules[2]) /\ RuleOutcome(BoundRules[2]) = "UNLOCKED"
    /\ Get(BoundRules[1].action).final = None
    /\ policy_result = "LOCKED"

\* C2: with a transit_policy set and no rule enabled, unsuppressed and
\* matching (an empty or absent rules list included), the result is LOCKED
\* when idle_lock is true and UNLOCKED when it is false.
C2_IdleFallback ==
    ( /\ Evaluated /\ HasTransitPolicy
      /\ \A i \in 1..Len(BoundRules) : ~RuleDecides(BoundRules[i]) )
    => /\ BoundTransitPolicy.idle_lock = Some(TRUE) => policy_result = "LOCKED"
       /\ BoundTransitPolicy.idle_lock = Some(FALSE) => policy_result = "UNLOCKED"

\* an enabled rule that does not match the event, and the idle lock decides
C2_Witness ==
    /\ Evaluated /\ HasTransitPolicy
    /\ Len(BoundRules) >= 1
    /\ RuleEnabled(BoundRules[1])
    /\ \A i \in 1..Len(BoundRules) : ~RuleDecides(BoundRules[i])
    /\ BoundTransitPolicy.idle_lock = Some(TRUE)
    /\ policy_result = "LOCKED"

\* C3: without a transit_policy the result is UNKNOWN, for every event and
\* every device setting.
C3_NoPolicyUnknown ==
    (Evaluated /\ ~HasTransitPolicy) => policy_result = "UNKNOWN"

C3_Witness ==
    /\ Evaluated /\ ~HasTransitPolicy
    /\ settings.ignore_flap_motion_rules
    /\ policy_result = "UNKNOWN"

\* the outcome of the first rule of rs that is enabled and matches, else idle
RuleEligible(rule) == RuleEnabled(rule) /\ RuleMatches(rule)

FirstEligibleOutcome(rs) ==
    IF \E i \in 1..Len(rs) : RuleEligible(rs[i])
    THEN RuleOutcome(rs[CHOOSE i \in 1..Len(rs) :
                            /\ RuleEligible(rs[i])
                            /\ \A j \in 1..(i - 1) : ~RuleEligible(rs[j])])
    ELSE IdleOutcome

\* C4: a rule with flap_states under ignore_flap_motion_rules, or with
\* motion_sensor_states under ignore_motion_sensor_rules, is skipped: the
\* result is that of the remaining rules in order, or the idle default.
C4_SuppressedRulesSkipped ==
    (Evaluated /\ HasTransitPolicy) =>
        policy_result = FirstEligibleOutcome(SelectSeq(BoundRules, RuleNotSuppressed))

\* a suppressed rule ranked first would have matched and locked; the result
\* is the unlock of the rule after it
C4_Witness ==
    /\ Evaluated /\ HasTransitPolicy
    /\ Len(BoundRules) >= 2
    /\ RuleSuppressed(BoundRules[1]) /\ RuleEligible(BoundRules[1])
    /\ RuleOutcome(BoundRules[1]) = "LOCKED"
    /\ RuleDecides(BoundRules[2]) /\ RuleOutcome(BoundRules[2]) = "UNLOCKED"
    /\ policy_result = "UNLOCKED"

\* the criteria with other flap and motion state lists
WithStates(c, flap, motion) ==
    [ c EXCEPT !.flap_states = flap, !.motion_sensor_states = motion ]

StatelessRule(rule) ==
    [ rule EXCEPT !.criteria = Some(WithStates(Get(rule.criteria), << >>, << >>)) ]

\* the bound policy with the flap and motion states of every rule removed
StatelessPolicy ==
    [ device_transit_policy EXCEPT !.transit_policy =
          Some([ BoundTransitPolicy EXCEPT !.rules =
                     Some([ i \in 1..Len(BoundRules) |-> StatelessRule(BoundRules[i]) ]) ]) ]

OnlyFlapCriteria(c) ==
    /\ c.flap_states # << >>
    /\ c.event_trigger_sources = << >> /\ c.event_classifications = << >>
    /\ c.rfid_codes = << >> /\ c.time_ranges = << >> /\ c.motion_sensor_states = << >>

\* C5: with both ignore flags false, flap_states and motion_sensor_states are
\* no match predicates: criteria that differ only in them match the same
\* events, the result is that of the policy without them, and an enabled rule
\* with only flapState criteria ranked first decides.
C5_StatesAreNotMatchPredicates ==
    ( /\ Evaluated /\ HasTransitPolicy
      /\ ~settings.ignore_flap_motion_rules /\ ~settings.ignore_motion_sensor_rules )
    => /\ \A i \in 1..Len(BoundRules) :
              \A flap \in { << >>, << "CLOSED" >>, << "OPEN_OUTWARD", "OPEN_INWARD" >> } :
                  \A motion \in { << >>, << "INDOOR" >> } :
                      matches(WithStates(Get(BoundRules[i].criteria), flap, motion),
                              Get(event), time_zone)
                      = matches(Get(BoundRules[i].criteria), Get(event), time_zone)
       /\ policy_result
              = determine_policy_result(StatelessPolicy, settings, time_zone, Get(event))
       /\ ( /\ Len(BoundRules) >= 1
            /\ RuleEnabled(BoundRules[1])
            /\ OnlyFlapCriteria(Get(BoundRules[1].criteria)) )
          => policy_result = RuleOutcome(BoundRules[1])

\* a flap state rule ranked first locks although the rule after it matches
C5_Witness ==
    /\ Evaluated /\ HasTransitPolicy
    /\ ~settings.ignore_flap_motion_rules /\ ~settings.ignore_motion_sensor_rules
    /\ Len(BoundRules) >= 2
    /\ RuleEnabled(BoundRules[1]) /\ OnlyFlapCriteria(Get(BoundRules[1].criteria))
    /\ RuleOutcome(BoundRules[1]) = "LOCKED"
    /\ RuleDecides(BoundRules[2]) /\ RuleOutcome(BoundRules[2]) = "UNLOCKED"
    /\ policy_result = "LOCKED"

\* the rules of the payload the bound policy was parsed from
ApiRules ==
    LET t == Get(api_payload).transitPolicy
    IN  IF t = None \/ Get(t).rules = None THEN << >> ELSE Get(Get(t).rules)

RuleApplies(rule) == RuleNotSuppressed(rule) /\ RuleMatches(rule)

FirstApplicableOutcome(rs) ==
    IF \E i \in 1..Len(rs) : RuleApplies(rs[i])
    THEN RuleOutcome(rs[CHOOSE i \in 1..Len(rs) :
                            /\ RuleApplies(rs[i])
                            /\ \A j \in 1..(i - 1) : ~RuleApplies(rs[j])])
    ELSE IdleOutcome

\* C6: a rule whose enabled flag is false never decides, the result being that
\* of the enabled rules alone; a rule whose payload has no "enabled" key is
\* parsed as enabled and so is among them.
C6_DisabledNeverDecidesDefaultEnabled ==
    /\ \A i \in 1..Len(ApiRules) :
           ApiRules[i].enabled = None => RuleEnabled(BoundRules[i])
    /\ (Evaluated /\ HasTransitPolicy) =>
           policy_result = FirstApplicableOutcome(SelectSeq(BoundRules, RuleEnabled))

\* a disabled rule that applies and locks is passed over; the rule after it,
\* received without an "enabled" key, unlocks
C6_Witness ==
    /\ Evaluated /\ HasTransitPolicy
    /\ Len(BoundRules) >= 2
    /\ BoundRules[1].enabled = Some(FALSE)
    /\ RuleApplies(BoundRules[1]) /\ RuleOutcome(BoundRules[1]) = "LOCKED"
    /\ ApiRules[2].enabled = None
    /\ RuleDecides(BoundRules[2]) /\ RuleOutcome(BoundRules[2]) = "UNLOCKED"
    /\ policy_result = "UNLOCKED"

----------------------------------------------------------------------------
(* RuleCriteria.matches applied to typed criteria and events *)

MatchCriteria ==
    [ event_trigger_sources :
          { << >>, << "INDOOR_MOTION" >>, << "OUTDOOR_MOTION", "REMOTE" >> },
      event_classifications :
          { << >>, << "CLEAR" >>, << "SUSPICIOUS", "CONTRABAND" >> },
      rfid_codes   : { << >>, << "A" >>, << "A", "B" >> },
      rfid_timeout : { None },
      time_ranges  : { << >>, << TimeRange(8, 0, 10, 0) >>,
                       << TimeRange(22, 0, 2, 0), TimeRange(12, 0, 12, 0) >> },
      motion_sensor_states : { << >> },
      flap_states  : { << >>, << "OPEN_INWARD" >> } ]

MatchEvents ==
    [ global_id : { Some(1) }, device_id : { Some("OC-000000000000") },
      event_id : { Some(1) },
      timestamp : { Some(<< 1, 8, 15, 21, 0 >>), Some(<< 1, 21, 30, 0, 0 >>),
                    Some(<< 1, 12, 0, 59, 999999 >>), Some(<< 1, 23, 59, 0, 0 >>) },
      frame_count : { None },
      event_trigger_source : { None, Some("INDOOR_MOTION"), Some("OUTDOOR_MOTION") },
      event_classification : { None, Some("CLEAR"), Some("CONTRABAND") },
      poster_frame_index : { None }, access_token : { None },
      rfid_codes : { Some(<< >>), Some(<< "A" >>), Some(<< "C", "B" >>) } ]

MatchTimeZones == { 0, 2 }

\* a device with no policy set and no event seen
DeviceIdle ==
    /\ settings = [ ignore_flap_motion_rules |-> FALSE,
                    ignore_motion_sensor_rules |-> FALSE ]
    /\ api_payload = Some(ApiPolicy(1, None))
    /\ device_transit_policy = Get(DeviceTransitPolicy_from_api_response(api_payload))
    /\ policy_result = NotYet

\* the arguments of the call are at hand
InitMatch ==
    /\ DeviceIdle
    /\ criteria \in { Some(c) : c \in MatchCriteria }
    /\ event \in { Some(e) : e \in MatchEvents }
    /\ time_zone \in MatchTimeZones
    /\ match_result = NotYet
    /\ time_range = None
    /\ at_timestamp = None
    /\ contains_result = NotYet
    /\ criteria_payload = None
    /\ parsed = None
    /\ dict_out = None
    /\ reparsed = CallNotMade
    /\ NoDeviceCall
    /\ NoParseCall
    /\ NoSensor

Matches ==
    /\ match_result = NotYet
    /\ match_result' = matches(Get(criteria), Get(event), time_zone)
    /\ UNCHANGED << settings, time_zone, device_transit_policy, event, policy_result,
                    criteria, time_range, at_timestamp, contains_result,
                    api_payload, criteria_payload, parsed, dict_out, reparsed >>
    /\ UNCHANGED << deviceVars, parseVars, sensorVars >>

NextMatch == Matches

SpecMatch == InitMatch /\ [][NextMatch]_vars

\* C7: matches is true exactly when each of the four criteria lists is empty
\* or met: the trigger source and the classification are members, a code is
\* shared, a time range contains the timestamp. Empty criteria match all.
C7_MatchesIsTheConjunction ==
    match_result # NotYet =>
        /\ match_result \in { "True", "False" }
        /\ match_result = "True" <=> CriteriaMatch(Get(criteria), Get(event), time_zone)
        /\ ( /\ Get(criteria).event_trigger_sources = << >>
             /\ Get(criteria).event_classifications = << >>
             /\ Get(criteria).rfid_codes = << >>
             /\ Get(criteria).time_ranges = << >> ) => match_result = "True"

\* all four lists are set and met, the shared code not being the first
C7_Witness ==
    /\ match_result = "True"
    /\ Len(Get(criteria).event_trigger_sources) = 2
    /\ Len(Get(criteria).event_classifications) = 2
    /\ Get(criteria).rfid_codes = << "A", "B" >>
    /\ Get(Get(event).rfid_codes) = << "C", "B" >>
    /\ Len(Get(criteria).time_ranges) = 2

----------------------------------------------------------------------------
(* TimeRange.contains_timestamp applied to ranges, instants and zones *)

ClockTimes == { << 0, 0 >>, << 2, 0 >>, << 2, 30 >>, << 12, 0 >>, << 22, 0 >>, << 23, 59 >> }

TimeRanges ==
    { TimeRange(s[1], s[2], e[1], e[2]) : s \in ClockTimes, e \in ClockTimes }

\* UTC wall clocks of day 1
Timestamps ==
    { << 1, h, m, sec[1], sec[2] >> :
          h \in { 0, 1, 2, 12, 20, 21, 22, 23 },
          m \in { 0, 1, 29, 30, 31, 59 },
          sec \in { << 0, 0 >>, << 30, 500000 >>, << 59, 999999 >> } }

TimeZones == { -2, 0, 2 }

InitTime ==
    /\ DeviceIdle
    /\ time_range \in { Some(tr) : tr \in TimeRanges }
    /\ at_timestamp \in { Some(t) : t \in Timestamps }
    /\ time_zone \in TimeZones
    /\ contains_result = NotYet
    /\ event = None
    /\ criteria = None
    /\ match_result = NotYet
    /\ criteria_payload = None
    /\ parsed = None
    /\ dict_out = None
    /\ reparsed = CallNotMade
    /\ NoDeviceCall
    /\ NoParseCall
    /\ NoSensor

ContainsTimestamp ==
    /\ contains_result = NotYet
    /\ contains_result' =
           PyBool(contains_timestamp(Get(time_range), Get(at_timestamp), time_zone))
    /\ UNCHANGED << settings, time_zone, device_transit_policy, event, policy_result,
                    criteria, match_result, time_range, at_timestamp,
                    api_payload, criteria_payload, parsed, dict_out, reparsed >>
    /\ UNCHANGED << deviceVars, parseVars, sensorVars >>

NextTime == ContainsTimestamp

SpecTime == InitTime /\ [][NextTime]_vars

StartMinute == Get(time_range).start_hour * 60 + Get(time_range).start_minute

EndMinute == Get(time_range).end_hour * 60 + Get(time_range).end_minute

LocalMinute == LocalMinuteOfDay(Get(at_timestamp), time_zone)

\* C8: for a range whose start clock time is later than its end clock time,
\* contains_timestamp is true exactly when the local time of day is at or
\* after the start or at or before the end minute, and false in between.
C8_OvernightRange ==
    (contains_result # NotYet /\ StartMinute > EndMinute) =>
        /\ contains_result = "True" <=> (LocalMinute >= StartMinute \/ LocalMinute <= EndMinute)
        /\ (EndMinute < LocalMinute /\ LocalMinute < StartMinute) => contains_result = "False"

\* 22:00-02:00 holds 01:30 local of the next day, two hours ahead of UTC
C8_Witness ==
    /\ contains_result = "True"
    /\ Get(time_range) = TimeRange(22, 0, 2, 0)
    /\ time_zone = 2
    /\ Get(at_timestamp) = << 1, 23, 30, 30, 500000 >>
    /\ LocalMinute = 90

\* a time of day as a wall clock of day 0, to compare with DtLeq
TimeOfDay(minute_of_day, second, microsecond) ==
    << 0, minute_of_day \div 60, minute_of_day % 60, second, microsecond >>

\* the local time of day of the timestamp
LocalTimeOfDay == TimeOfDay(LocalMinute, Get(at_timestamp)[4], Get(at_timestamp)[5])

\* C25: for a range whose start is not later than its end, contains_timestamp
\* is true exactly when the local time of day lies between
\* start_hour:start_minute:00.000000 and end_hour:end_minute:59.999999
\* inclusive; every instant of the end minute is contained, and a range
\* whose start equals its end covers exactly that minute.
C25_SameDayRange ==
    (contains_result # NotYet /\ StartMinute <= EndMinute) =>
        /\ contains_result = "True" <=>
               /\ DtLeq(TimeOfDay(StartMinute, 0, 0), LocalTimeOfDay)
               /\ DtLeq(LocalTimeOfDay, TimeOfDay(EndMinute, 59, 999999))
        /\ LocalMinute = EndMinute => contains_result = "True"
        /\ StartMinute = EndMinute =>
               (contains_result = "True" <=> LocalMinute = StartMinute)

\* 12:00-12:00 holds 12:00:59.999999 local
C25_Witness ==
    /\ contains_result = "True"
    /\ StartMinute = EndMinute
    /\ LocalMinute = EndMinute
    /\ Get(at_timestamp)[4] = 59
    /\ Get(at_timestamp)[5] = 999999

----------------------------------------------------------------------------
(* RuleCriteria.from_api_response applied to criteria payloads *)

ListOrScalarKeys ==
    { "eventTriggerSource", "eventClassification", "rfidCode", "timeRange",
      "motionSensorState", "flapState" }

\* the valid wire values of a key (current_schema.py)
WireValues(key) ==
    CASE key = "eventTriggerSource"  -> { 0, 1, 2, 3 }
      [] key = "eventClassification" -> { 0, 1, 2, 3, 4, 10 }
      [] key = "motionSensorState"   -> { 0, 1, 2, 3 }
      [] key = "flapState"           -> { 0, 1, 2, 3 }
      [] key = "rfidCode"            -> { "A", "B" }
      [] key = "timeRange"           -> { TimeStr(8, 0, 10, 0), TimeStr(22, 0, 2, 0),
                                          << << << 8 >>, << 0 >> >>, << << 9 >>, << 5 >> >> >> }

\* a key given as a scalar, as an array of one and as an array of two
WireForms(key) ==
    { Scalar(v) : v \in WireValues(key) }
    \cup { Array(<< v >>) : v \in WireValues(key) }
    \cup { Array(<< v, w >>) : v \in WireValues(key), w \in WireValues(key) }

CriteriaPayloads ==
    DeviceCriteria
    \cup UNION { { [ AnyCriteria EXCEPT ![key] = form ] : form \in WireForms(key) } :
                 key \in ListOrScalarKeys }

InitCriteria ==
    /\ DeviceIdle
    /\ time_zone = 0
    /\ criteria_payload \in { Some(c) : c \in CriteriaPayloads }
    /\ parsed = None
    /\ event = None
    /\ criteria = None
    /\ match_result = NotYet
    /\ time_range = None
    /\ at_timestamp = None
    /\ contains_result = NotYet
    /\ dict_out = None
    /\ reparsed = CallNotMade
    /\ NoDeviceCall
    /\ NoParseCall
    /\ NoSensor

ParseCriteria ==
    /\ parsed = None
    /\ parsed' = RuleCriteria_from_api_response(criteria_payload)
    /\ UNCHANGED << settings, time_zone, device_transit_policy, event, policy_result,
                    criteria, match_result, time_range, at_timestamp, contains_result,
                    api_payload, criteria_payload, dict_out, reparsed >>
    /\ UNCHANGED << deviceVars, parseVars, sensorVars >>

\* parsed.to_dict()
CriteriaToDict ==
    /\ parsed # None
    /\ dict_out = None
    /\ dict_out' = Some(RuleCriteria_to_dict(Get(parsed)))
    /\ UNCHANGED << settings, time_zone, device_transit_policy, event, policy_result,
                    criteria, match_result, time_range, at_timestamp, contains_result,
                    api_payload, criteria_payload, parsed, reparsed >>
    /\ UNCHANGED << deviceVars, parseVars, sensorVars >>

NextCriteria == ParseCriteria \/ CriteriaToDict

SpecCriteria == InitCriteria /\ [][NextCriteria]_vars

\* the RuleCriteria field a payload key is parsed into
TypedField(key) ==
    CASE key = "eventTriggerSource"  -> "event_trigger_sources"
      [] key = "eventClassification" -> "event_classifications"
      [] key = "motionSensorState"   -> "motion_sensor_states"
      [] key = "flapState"           -> "flap_states"
      [] key = "rfidCode"            -> "rfid_codes"
      [] key = "timeRange"           -> "time_ranges"

\* the payload with the scalar of a key wrapped into an array of one
ScalarAsArray(payload, key) ==
    [ payload EXCEPT ![key] = Array(payload[key].items) ]

\* C9: for each list-or-scalar key and each valid wire value v, the integer
\* code 0 included, the scalar v is parsed into the same typed list as the
\* array [v], and the list has exactly one element.
C9_ScalarArraySymmetry ==
    parsed # None =>
        \A key \in ListOrScalarKeys :
            Get(criteria_payload)[key].kind = "scalar" =>
                /\ Get(parsed)[TypedField(key)]
                       = Get(RuleCriteria_from_api_response(
                                 Some(ScalarAsArray(Get(criteria_payload), key))))[TypedField(key)]
                /\ Len(Get(parsed)[TypedField(key)]) = 1

----------------------------------------------------------------------------
(* from_api_response(to_dict(from_api_response(x))) of policy payloads *)

ManualCriteria == ApiCriteria(Array(<< 0 >>), Absent, Absent, Absent, Absent, Absent)

SingleTagCriteria == ApiCriteria(Absent, Absent, Array(<< "A" >>), Absent, Absent, Absent)

RoundTripCriteria ==
    { AnyCriteria, ContrabandCriteria, ExitCriteria, NightCriteria, ManualCriteria,
      SingleTagCriteria }

RoundTripActions ==
    { ApiAction(Some(TRUE), None),
      ApiAction(Some(FALSE), Some(TRUE)),
      [ lock |-> Some(TRUE), sound |-> Some("bell"), lockoutDuration |-> Some(5000),
        final |-> None ] }

RoundTripRules ==
    { ApiRule(c, a, enabled) :
          c \in RoundTripCriteria, a \in RoundTripActions, enabled \in { None, Some(FALSE) } }

\* the ux dict is the set of its keys
RoundTripPolicies ==
    { ApiPolicy(1, None),
      ApiPolicy(1, Some(ApiTransitPolicy(None, None))),
      [ ApiPolicy(1, Some(ApiTransitPolicy(None, Some(TRUE)))) EXCEPT !.name = None ],
      ApiPolicy(1, Some([ ApiTransitPolicy(None, Some(TRUE)) EXCEPT
                              !.ux = Some({ "onActivate" }) ])) }
    \cup { ApiPolicy(1, Some(ApiTransitPolicy(Some(rules), Some(idle)))) :
               rules \in SeqsUpTo(RoundTripRules, MaxRules), idle \in BOOLEAN }

InitRoundTrip ==
    /\ settings = [ ignore_flap_motion_rules |-> FALSE,
                    ignore_motion_sensor_rules |-> FALSE ]
    /\ time_zone = 0
    /\ api_payload \in { Some(p) : p \in RoundTripPolicies }
    /\ device_transit_policy = Get(DeviceTransitPolicy_from_api_response(api_payload))
    /\ policy_result = NotYet
    /\ event = None
    /\ criteria = None
    /\ match_result = NotYet
    /\ time_range = None
    /\ at_timestamp = None
    /\ contains_result = NotYet
    /\ criteria_payload = None
    /\ parsed = None
    /\ dict_out = None
    /\ reparsed = CallNotMade
    /\ NoDeviceCall
    /\ NoParseCall
    /\ NoSensor

\* policy = from_api_response(x); d = policy.to_dict(); from_api_response(d)
RoundTrip ==
    /\ parsed = None
    /\ ~ DeviceTransitPolicy_from_api_response_raises(api_payload)
    /\ parsed' = DeviceTransitPolicy_from_api_response(api_payload)
    /\ parsed' # None
    /\ ~ DeviceTransitPolicy_to_dict_raises(Get(parsed'))
    /\ dict_out' = Some(DeviceTransitPolicy_to_dict(Get(parsed')))
    /\ reparsed' = IF DeviceTransitPolicy_from_api_response_raises(dict_out')
                   THEN Raised
                   ELSE Returned(DeviceTransitPolicy_from_api_response(dict_out'))
    /\ UNCHANGED << settings, time_zone, device_transit_policy, event, policy_result,
                    criteria, match_result, time_range, at_timestamp, contains_result,
                    api_payload, criteria_payload >>
    /\ UNCHANGED << deviceVars, parseVars, sensorVars >>

NextRoundTrip == RoundTrip

SpecRoundTrip == InitRoundTrip /\ [][NextRoundTrip]_vars

\* C10: for every payload x that parses without error, parsing the dict that
\* to_dict produces from the parsed policy gives a policy equal to the parsed
\* one: from_api_response(to_dict(from_api_response(x))) = from_api_response(x),
\* a single-element list of wire code 0 included.
C10_RoundTrip ==
    parsed # None => reparsed = Returned(parsed)

----------------------------------------------------------------------------
(* the rules of the payload parsed and of the dict produced from it *)

PayloadRules ==
    LET t == Get(api_payload).transitPolicy
    IN  IF t # None /\ Get(t).rules # None THEN Get(Get(t).rules) ELSE << >>

DictRules ==
    LET t == Get(dict_out).transitPolicy
    IN  IF t # None /\ Get(t).rules # None THEN Get(Get(t).rules) ELSE << >>

\* C11: every action field present in a rule payload (lock, sound,
\* lockoutDuration, final) is parsed and emitted again by to_dict with the
\* same value; a rule received with final=true is serialized with final=true.
C11_ActionFieldsPreserved ==
    dict_out # None =>
        \A i \in 1..Len(PayloadRules) :
            LET a == Get(PayloadRules[i].action)
                d == Get(DictRules[i].action)
            IN  /\ d.lock = a.lock
                /\ d.sound = a.sound
                /\ d.lockoutDuration = a.lockoutDuration
                /\ d.final = a.final

----------------------------------------------------------------------------
(* RuleCriteria.to_dict of the criteria parsed *)

\* the keys to_dict writes in the compact encoding
CompactKeys ==
    { "eventTriggerSource", "eventClassification", "timeRange", "motionSensorState",
      "flapState" }

\* what to_dict writes for one element of the list of a key
WireValueOf(key, member) ==
    CASE key = "eventTriggerSource"  -> EventTriggerSourceValue(member)
      [] key = "eventClassification" -> EventClassificationValue(member)
      [] key = "motionSensorState"   -> EventMotionstateValue(member)
      [] key = "flapState"           -> EventFlapstateValue(member)
      [] key = "timeRange"           -> time_range_format(member)

\* C12: RuleCriteria.to_dict emits each of the trigger source, classification,
\* motion state, flap state and time range fields as a bare scalar when its
\* list has exactly one element, and as an array holding every element in
\* order when it has two or more.
C12_SingleScalarManyArray ==
    (parsed # None /\ dict_out # None) =>
        \A key \in CompactKeys :
            LET lst == Get(parsed)[TypedField(key)]
                out == Get(dict_out)[key]
            IN  /\ Len(lst) = 1 => out = Scalar(WireValueOf(key, lst[1]))
                /\ Len(lst) >= 2 =>
                       out = Array([ i \in 1..Len(lst) |-> WireValueOf(key, lst[i]) ])

\* a criteria with one trigger source and two classifications has been written
C12_Witness ==
    /\ parsed # None
    /\ dict_out # None
    /\ Len(Get(parsed).event_trigger_sources) = 1
    /\ Len(Get(parsed).event_classifications) = 2
    /\ Get(dict_out).eventTriggerSource = Scalar(3)
    /\ Get(dict_out).eventClassification = Array(<< 2, 3 >>)

ParsedRules ==
    LET t == Get(parsed).transit_policy
    IN  IF t # None /\ Get(t).rules # None THEN Get(Get(t).rules) ELSE << >>

\* C13: for a policy containing one rule whose criteria have a single-element
\* rfid_codes list, to_dict emits rfidCode as a bare string, not a one-element
\* array, and re-parsing the produced dict yields an equal typed structure.
C13_SingleTagRoundTrip ==
    (dict_out # None
     /\ Len(ParsedRules) = 1
     /\ Len(Get(ParsedRules[1].criteria).rfid_codes) = 1) =>
        /\ Get(DictRules[1].criteria).rfidCode
               = Scalar(Get(ParsedRules[1].criteria).rfid_codes[1])
        /\ reparsed = Returned(parsed)

\* C14: the to_dict family never emits a key for a field that is absent or
\* empty: no key of the produced map, at the policy level or inside
\* transitPolicy, has a null value, for every typed policy including one with
\* no name, no transit_policy or unset idle locks.
C14_NoNullValues ==
    dict_out # None =>
        /\ Get(dict_out).null_keys = { }
        /\ Get(dict_out).transitPolicy # None =>
               Get(Get(dict_out).transitPolicy).null_keys = { }

----------------------------------------------------------------------------
(* A device that receives device updates, policy updates and events *)

DeviceId == "OC-000000000000"

ApiDevice(device_id, policy_id, zone) ==
    [ deviceId |-> device_id, deviceTransitPolicyId |-> policy_id, timeZone |-> zone ]

\* getDevice responses: of this device, of another one and without a deviceId
ApiDevices ==
    { ApiDevice(Some(DeviceId), id, zone) :
          id \in { None, Some(1), Some(2), Some(3) },
          zone \in { None, Some(ZoneName(2)) } }
    \cup { ApiDevice(Some("OC-111111111111"), Some(2), Some(ZoneName(2))),
           ApiDevice(None, Some(2), None),
           ApiDevice(Some(DeviceId), Some(1), Some(UnknownZoneName)) }

UpdateTransitPolicies ==
    { None,
      Some(ApiTransitPolicy(None, Some(TRUE))),
      Some(ApiTransitPolicy(
               Some(<< ApiRule(ExitCriteria, ApiAction(Some(FALSE), None), None) >>),
               Some(TRUE))),
      Some(ApiTransitPolicy(
               Some(<< ApiRule(NightCriteria, ApiAction(Some(TRUE), None), None) >>),
               Some(FALSE))) }

\* getDeviceTransitPolicy responses, and a null one
ApiPolicyUpdates ==
    { Some(ApiPolicy(id, t)) : id \in { 1, 2 }, t \in UpdateTransitPolicies }
    \cup { None }

InitDevice ==
    /\ settings \in DeviceSettings
    /\ \E api_device \in { d \in ApiDevices : d.deviceId = Some(DeviceId) } :
           LET device == Get(Device_from_api_response(Some(api_device), None))
           IN  /\ time_zone = device.time_zone
               /\ device_transit_policy_id = device.device_transit_policy_id
               /\ device_transit_policies = device.device_transit_policies
    /\ active_policy =
           Device_device_transit_policy(device_transit_policies, device_transit_policy_id)
    /\ unlocked = CallNotMade
    /\ NoListener
    /\ NoEvaluation
    /\ api_payload = None
    /\ device_transit_policy =
           Get(DeviceTransitPolicy_from_api_response(Some(ApiPolicy(1, None))))
    /\ policy_result = NotYet
    /\ event = None
    /\ criteria = None
    /\ match_result = NotYet
    /\ time_range = None
    /\ at_timestamp = None
    /\ contains_result = NotYet
    /\ criteria_payload = None
    /\ parsed = None
    /\ dict_out = None
    /\ reparsed = CallNotMade
    /\ NoParseCall
    /\ NoSensor

\* Device.update_device_from_api(data): every field of the parsed device that
\* is not None is copied onto the device, the fresh empty listener list of
\* the parsed device among them
UpdateDeviceFromApi(data) ==
    /\ IF data.deviceId # Some(DeviceId)
       THEN UNCHANGED << time_zone, device_transit_policy_id, policy_update_listeners >>
       ELSE LET updated_device == Get(Device_from_api_response(Some(data), Some(DeviceId)))
            IN  /\ time_zone' = updated_device.time_zone
                /\ device_transit_policy_id' =
                       IF updated_device.device_transit_policy_id # None
                       THEN updated_device.device_transit_policy_id
                       ELSE device_transit_policy_id
                /\ policy_update_listeners' =
                       copied_listeners(policy_update_listeners,
                                        updated_device.policy_update_listeners)
    /\ UNCHANGED << listener_calls, update_outcome, eval_policy, eval_index >>
    /\ UNCHANGED device_transit_policies
    /\ active_policy' =
           Device_device_transit_policy(device_transit_policies', device_transit_policy_id')
    /\ UNCHANGED << settings, device_transit_policy, event, policy_result, criteria,
                    match_result, time_range, at_timestamp, contains_result, api_payload,
                    criteria_payload, parsed, dict_out, reparsed, unlocked, parseVars, sensorVars >>

\* Device.update_device_transit_policy_from_api(data). A payload that parses
\* to None leaves the map as update_device_transit_policy left it before
\* reading transit_policy.device_transit_policy_id: created if it was None.
UpdateDeviceTransitPolicyFromApi(data) ==
    /\ api_payload' = data
    /\ IF DeviceTransitPolicy_from_api_response_raises(data)
       THEN /\ UNCHANGED device_transit_policies
            /\ listener_calls' = << >>
            /\ update_outcome' = Raised
       ELSE LET transit_policy == DeviceTransitPolicy_from_api_response(data)
            IN  IF transit_policy = None
                THEN /\ device_transit_policies' =
                            IF device_transit_policies = None THEN Some(<< >>)
                            ELSE device_transit_policies
                     /\ listener_calls' = << >>
                     /\ update_outcome' = Raised   \* None.device_transit_policy_id
                ELSE /\ device_transit_policies' =
                            update_device_transit_policy(device_transit_policies,
                                                         Get(transit_policy))
                     /\ listener_calls' =
                            call_listeners(policy_update_listeners,
                                           device_transit_policies')
                     /\ update_outcome' = Returned(None)
    /\ UNCHANGED << device_transit_policy_id, policy_update_listeners,
                    eval_policy, eval_index >>
    /\ active_policy' =
           Device_device_transit_policy(device_transit_policies', device_transit_policy_id')
    /\ UNCHANGED << settings, time_zone, device_transit_policy, event, policy_result,
                    criteria, match_result, time_range, at_timestamp, contains_result,
                    criteria_payload, parsed, dict_out, reparsed, unlocked, parseVars, sensorVars >>

\* an event arrives and Device.is_unlocked_by_event is asked about it
IsUnlockedByEvent(api_event) ==
    /\ event' = Event_from_api_response(Some(api_event))
    /\ unlocked' = is_unlocked_by_event(device_transit_policies, device_transit_policy_id,
                                        settings, time_zone, Get(event'))
    /\ UNCHANGED << settings, time_zone, device_transit_policy, policy_result,
                    criteria, match_result, time_range, at_timestamp, contains_result,
                    api_payload, criteria_payload, parsed, dict_out, reparsed,
                    device_transit_policy_id, device_transit_policies, active_policy,
                    policy_update_listeners, listener_calls, update_outcome,
                    eval_policy, eval_index, parseVars, sensorVars >>

NextDevice ==
    \/ \E data \in ApiDevices : UpdateDeviceFromApi(data)
    \/ \E data \in ApiPolicyUpdates : UpdateDeviceTransitPolicyFromApi(data)
    \/ \E api_event \in DeviceEvents : IsUnlockedByEvent(api_event)

SpecDevice == InitDevice /\ [][NextDevice]_vars

\* is_unlocked_by_event has been asked about an event
Asked == unlocked # CallNotMade /\ event # None

RemoteEvent == Get(event).event_trigger_source = Some("REMOTE")

\* C15: Device.is_unlocked_by_event returns true for every event whose trigger
\* source is REMOTE, whatever the device's policies, active policy id and
\* settings are, a device with no policy at all included, without evaluating
\* any policy.
C15_RemoteAlwaysUnlocked ==
    (Asked /\ RemoteEvent) => unlocked = Returned(Some(TRUE))

\* a remote event answered with true on a device that has no active policy
C15_Witness ==
    /\ Asked
    /\ RemoteEvent
    /\ active_policy = None
    /\ unlocked = Returned(Some(TRUE))

\* the policy result of the active policy, UNKNOWN when there is none to ask
ActiveResult ==
    IF active_policy = None THEN "UNKNOWN"
    ELSE determine_policy_result(Get(active_policy), settings, time_zone, Get(event))

\* C16: for every event whose trigger source is not REMOTE and every device
\* state (active policy id unset, id not in the policy map, active policy
\* without transit_policy, or a full policy), is_unlocked_by_event returns
\* true if the policy result is UNLOCKED, false if it is LOCKED, and null when
\* the result cannot be determined, and it never raises.
C16_DelegatesAndNeverRaises ==
    (Asked /\ ~RemoteEvent) =>
        /\ ~unlocked.raised
        /\ unlocked = Returned(IF ActiveResult = "UNLOCKED" THEN Some(TRUE)
                               ELSE IF ActiveResult = "LOCKED" THEN Some(FALSE)
                               ELSE None)

\* the policy of the payload last received, when it was stored in the map
LastStored ==
    IF api_payload = None \/ DeviceTransitPolicy_from_api_response_raises(api_payload)
    THEN None
    ELSE DeviceTransitPolicy_from_api_response(api_payload)

IdIsKey ==
    /\ device_transit_policy_id # None
    /\ device_transit_policies # None
    /\ Get(device_transit_policy_id) \in DOMAIN Get(device_transit_policies)

\* C17: after any sequence of device updates, policy-map updates and active-id
\* changes, Device.device_transit_policy equals the entry currently stored in
\* device_transit_policies under the current device_transit_policy_id, and is
\* absent exactly when the id is unset or not a key of the map; it is never a
\* policy that was replaced: when the payload last stored carries the current
\* id, the property gives the policy of that payload.
C17_ActivePolicyIsLiveLookup ==
    /\ IdIsKey =>
           active_policy = Some(Get(device_transit_policies)[Get(device_transit_policy_id)])
    /\ active_policy = None <=> ~IdIsKey
    /\ (LastStored # None
        /\ device_transit_policy_id = Some(Get(LastStored).device_transit_policy_id)) =>
           active_policy = LastStored

\* two policies are stored, the active id is 2 and the policy last stored,
\* one with rules, is the one the property gives
C17_Witness ==
    /\ device_transit_policies # None
    /\ DOMAIN Get(device_transit_policies) = { 1, 2 }
    /\ device_transit_policy_id = Some(2)
    /\ LastStored # None
    /\ Get(LastStored).device_transit_policy_id = 2
    /\ Get(LastStored).transit_policy # None
    /\ Get(Get(LastStored).transit_policy).rules # None
    /\ active_policy = LastStored

----------------------------------------------------------------------------
(* Event.from_api_response and DeviceTransitPolicy.from_api_response applied
   to untyped payloads *)

\* a timestamp string datetime.fromisoformat rejects
BadTimestamp == [ wellformed |-> FALSE, instant |-> << 0, 0, 0, 0, 0 >> ]

\* the time range string "22:00", which has no "-"
BadTimeStr == << << << 2, 2 >>, << 0, 0 >> >> >>

EmptyEvent ==
    [ k \in DOMAIN ApiEvent(1, None, None, None, None) |-> None ]

ParseEvents ==
    { None, Some(EmptyEvent),
      Some(ApiEvent(1, None, None, None, None)),
      Some(ApiEvent(1, Some(BadTimestamp), Some(2), Some(1), None)) }
    \cup { Some(ApiEvent(1, Some(IsoTimestamp(1, 8, 15, 21, 0)), Some(t), Some(c),
                         Some(<< "A" >>))) :
               t \in { 0, 1, 2, 3, 7 }, c \in { 0, 1, 2, 3, 4, 10, 99 } }

UnknownCodesRule ==
    ApiRule(ApiCriteria(Scalar(7), Array(<< 99, 2 >>), Absent, Absent, Absent, Absent),
            [ lock |-> Some(TRUE), sound |-> Some("meow"), lockoutDuration |-> None,
              final |-> None ],
            None)

UnknownInArrayRule ==
    ApiRule(ApiCriteria(Array(<< 7, 2 >>), Scalar(99), Absent, Absent, Absent, Absent),
            [ lock |-> Some(FALSE), sound |-> Some("bell"), lockoutDuration |-> None,
              final |-> None ],
            None)

BadTimeRangeRule ==
    ApiRule(ApiCriteria(Absent, Absent, Absent, Scalar(BadTimeStr), Absent, Absent),
            ApiAction(Some(TRUE), None), None)

ParsePolicies ==
    { None,
      Some([ ApiPolicy(1, None) EXCEPT !.deviceTransitPolicyId = None ]),
      Some([ ApiPolicy(1, Some(ApiTransitPolicy(None, Some(TRUE)))) EXCEPT
                 !.deviceId = None ]),
      Some(ApiPolicy(1, None)),
      Some(ApiPolicy(1, Some(ApiTransitPolicy(Some(<< BadTimeRangeRule >>), Some(TRUE))))),
      Some(ApiPolicy(1, Some(ApiTransitPolicy(Some(<< UnknownCodesRule >>), Some(TRUE))))),
      Some(ApiPolicy(1, Some(ApiTransitPolicy(
                                 Some(<< UnknownInArrayRule, UnknownCodesRule >>),
                                 Some(FALSE))))),
      Some(ApiPolicy(1, Some(ApiTransitPolicy(
                                 Some(<< [ ApiRule(AnyCriteria, ApiAction(None, None), None)
                                               EXCEPT !.criteria = None, !.action = None ] >>),
                                 Some(FALSE))))),
      Some(ApiPolicy(1, Some(ApiTransitPolicy(
                                 Some(<< ApiRule(ExitCriteria, ApiAction(Some(FALSE), None),
                                                 None) >>),
                                 Some(FALSE))))) }

InitParse ==
    /\ settings = [ ignore_flap_motion_rules |-> FALSE,
                    ignore_motion_sensor_rules |-> FALSE ]
    /\ time_zone = 0
    /\ device_transit_policy =
           Get(DeviceTransitPolicy_from_api_response(Some(ApiPolicy(1, None))))
    /\ policy_result = NotYet
    /\ event_payload \in ParseEvents
    /\ api_payload \in ParsePolicies
    /\ event_outcome = CallNotMade
    /\ policy_outcome = CallNotMade
    /\ schema_warning = FALSE
    /\ event = None
    /\ criteria = None
    /\ match_result = NotYet
    /\ time_range = None
    /\ at_timestamp = None
    /\ contains_result = NotYet
    /\ criteria_payload = None
    /\ parsed = None
    /\ dict_out = None
    /\ reparsed = CallNotMade
    /\ NoDeviceCall
    /\ NoSensor

\* Event.from_api_response(event_payload)
ParseEvent ==
    /\ event_outcome = CallNotMade
    /\ event_outcome' = IF Event_from_api_response_raises(event_payload) THEN Raised
                        ELSE Returned(Event_from_api_response(event_payload))
    /\ UNCHANGED << settings, time_zone, device_transit_policy, event, policy_result,
                    criteria, match_result, time_range, at_timestamp, contains_result,
                    api_payload, criteria_payload, parsed, dict_out, reparsed,
                    deviceVars, event_payload, policy_outcome, schema_warning,
                    sensorVars >>

\* DeviceTransitPolicy.from_api_response(api_payload)
ParsePolicy ==
    /\ policy_outcome = CallNotMade
    /\ policy_outcome' =
           IF DeviceTransitPolicy_from_api_response_raises(api_payload) THEN Raised
           ELSE Returned(DeviceTransitPolicy_from_api_response(api_payload))
    /\ schema_warning' = ( /\ api_payload # None
                           /\ Get(api_payload).deviceTransitPolicyId # None
                           /\ ~validate(Get(api_payload)) )
    /\ UNCHANGED << settings, time_zone, device_transit_policy, event, policy_result,
                    criteria, match_result, time_range, at_timestamp, contains_result,
                    api_payload, criteria_payload, parsed, dict_out, reparsed,
                    deviceVars, event_payload, event_outcome, sensorVars >>

NextParse == ParseEvent \/ ParsePolicy

SpecParse == InitParse /\ [][NextParse]_vars

\* C18: Event.from_api_response and DeviceTransitPolicy.from_api_response
\* never raise for any untyped payload: a null root, missing fields (a policy
\* payload with deviceTransitPolicyId but no deviceId included), an unparsable
\* timestamp string or a malformed time range string each give an object with
\* absent fields or an absent result.
C18_ParsersNeverRaise ==
    /\ ~event_outcome.raised
    /\ ~policy_outcome.raised

\* the codes and values the enums define
TriggerCodes == { 0, 1, 2, 3 }

ClassificationCodes == { 0, 1, 2, 3, 4, 10 }

SoundValues ==
    { "affirm", "alarm", "angry-meow", "bell", "choir", "coin", "deny", "fanfare",
      "success", "unknown" }

EventParsed == event_outcome # CallNotMade /\ event_payload # None

PolicyParsed == policy_outcome # CallNotMade /\ api_payload # None

\* the rules of the policy payload, when nothing else in it makes the parse fail
WellFormedRules ==
    IF DeviceTransitPolicy_from_api_response_raises(api_payload)
       \/ Get(api_payload).deviceTransitPolicyId = None
    THEN << >>
    ELSE PayloadRules

OutcomeRules ==
    LET t == Get(Get(policy_outcome.ret[1]).transit_policy).rules
    IN  Get(t)

\* the items of a list-or-scalar value that the parser maps
MappedItems(api_obj) ==
    IF api_obj.kind = "scalar" /\ api_obj.items[1] = 0 THEN << >> ELSE api_obj.items

\* each undefined code among the items is UNKNOWN at its place in the list
UnknownAtUndefined(api_obj, defined, lst) ==
    /\ Len(lst) = Len(MappedItems(api_obj))
    /\ \A j \in 1..Len(lst) :
           MappedItems(api_obj)[j] \notin defined => lst[j] = "UNKNOWN"

\* C19: decoding an enum code that is not one of the enum's defined wire codes
\* (trigger source, classification, sound action) yields that enum's UNKNOWN
\* variant and never fails the parse of the enclosing event or criteria.
C19_UndefinedCodeIsUnknown ==
    /\ (EventParsed /\ Get(event_payload).timestamp # Some(BadTimestamp)
        /\ Get(event_payload) # EmptyEvent) =>
           /\ ~event_outcome.raised
           /\ LET p == Get(event_payload)
                  e == Get(event_outcome.ret[1])
              IN  /\ (p.eventTriggerSource # None
                      /\ Get(p.eventTriggerSource) \notin TriggerCodes) =>
                         e.event_trigger_source = Some("UNKNOWN")
                  /\ (p.eventClassification # None
                      /\ Get(p.eventClassification) \notin ClassificationCodes) =>
                         e.event_classification = Some("UNKNOWN")
    /\ (PolicyParsed /\ WellFormedRules # << >>) =>
           /\ ~policy_outcome.raised
           /\ \A i \in 1..Len(WellFormedRules) :
                  LET r == WellFormedRules[i]
                      o == OutcomeRules[i]
                  IN  /\ r.criteria # None =>
                             /\ UnknownAtUndefined(Get(r.criteria).eventTriggerSource,
                                                   TriggerCodes,
                                                   Get(o.criteria).event_trigger_sources)
                             /\ UnknownAtUndefined(Get(r.criteria).eventClassification,
                                                   ClassificationCodes,
                                                   Get(o.criteria).event_classifications)
                      /\ (r.action # None /\ Get(r.action).sound # None
                          /\ Get(Get(r.action).sound) \notin SoundValues) =>
                             Get(o.action).sound = Some("unknown")

\* an event with the undefined trigger code 7 and the undefined classification
\* code 99, and a policy with undefined codes and an undefined sound, parsed
C19_Witness ==
    /\ EventParsed
    /\ Get(event_payload).eventTriggerSource = Some(7)
    /\ Get(event_payload).eventClassification = Some(99)
    /\ Get(event_outcome.ret[1]).event_trigger_source = Some("UNKNOWN")
    /\ PolicyParsed
    /\ WellFormedRules = << UnknownCodesRule >>
    /\ Get(OutcomeRules[1].criteria).event_trigger_sources = << "UNKNOWN" >>
    /\ Get(OutcomeRules[1].action).sound = Some("unknown")

\* the variant listed for a wire code
ListedTriggerSource(code) ==
    CASE code = 0 -> "MANUAL"
      [] code = 1 -> "REMOTE"
      [] code = 2 -> "INDOOR_MOTION"
      [] code = 3 -> "OUTDOOR_MOTION"

ListedClassification(code) ==
    CASE code = 0  -> "UNKNOWN"
      [] code = 1  -> "CLEAR"
      [] code = 2  -> "SUSPICIOUS"
      [] code = 3  -> "CONTRABAND"
      [] code = 4  -> "HUMAN_ACTIVITY"
      [] code = 10 -> "REMOTE_UNLOCK"

\* C20: Event.from_api_response decodes every listed wire code to its listed
\* variant: eventTriggerSource 0, 1, 2, 3 give MANUAL, REMOTE, INDOOR_MOTION,
\* OUTDOOR_MOTION and eventClassification 0, 1, 2, 3, 4, 10 give UNKNOWN,
\* CLEAR, SUSPICIOUS, CONTRABAND, HUMAN_ACTIVITY, REMOTE_UNLOCK; a present
\* code never decodes to an absent field.
C20_ListedCodesDecode ==
    (EventParsed /\ ~event_outcome.raised /\ event_outcome.ret[1] # None) =>
        LET p == Get(event_payload)
            e == Get(event_outcome.ret[1])
        IN  /\ (p.eventTriggerSource # None
                /\ Get(p.eventTriggerSource) \in TriggerCodes) =>
                   e.event_trigger_source
                       = Some(ListedTriggerSource(Get(p.eventTriggerSource)))
            /\ (p.eventClassification # None
                /\ Get(p.eventClassification) \in ClassificationCodes) =>
                   e.event_classification
                       = Some(ListedClassification(Get(p.eventClassification)))
            /\ p.eventTriggerSource # None => e.event_trigger_source # None
            /\ p.eventClassification # None => e.event_classification # None

\* C21: schema validation in DeviceTransitPolicy.from_api_response is
\* diagnostic only: for every payload that carries deviceTransitPolicyId and
\* deviceId, the constructed policy is the field-by-field extraction of the
\* payload whether the payload passes or violates the schema, and a schema
\* violation never makes the result absent or raises.
C21_ValidationIsDiagnosticOnly ==
    (PolicyParsed
     /\ Get(api_payload).deviceTransitPolicyId # None
     /\ Get(api_payload).deviceId # None
     /\ ~DeviceTransitPolicy_from_api_response_raises(api_payload)) =>
        /\ schema_warning <=> ~validate(Get(api_payload))
        /\ ~policy_outcome.raised
        /\ policy_outcome.ret[1] # None
        /\ LET p == Get(api_payload)
               o == Get(policy_outcome.ret[1])
           IN  /\ o.device_transit_policy_id = Get(p.deviceTransitPolicyId)
               /\ o.device_id = Get(p.deviceId)
               /\ o.name = p.name
               /\ o.transit_policy = TransitPolicy_from_api_response(p.transitPolicy)

\* a payload that violates the schema (undefined codes) was parsed into a
\* policy with its rule, with the warning logged
C21_Witness ==
    /\ PolicyParsed
    /\ schema_warning
    /\ WellFormedRules = << UnknownCodesRule >>
    /\ ~policy_outcome.raised
    /\ policy_outcome.ret[1] # None
    /\ Len(OutcomeRules) = 1

----------------------------------------------------------------------------
(* determine_policy_result on whatever the two parsers produce *)

\* the policy payloads that parse into a policy, one with a night rule added
EvaluatedPolicies ==
    { p \in ParsePolicies :
          /\ p # None
          /\ ~DeviceTransitPolicy_from_api_response_raises(p)
          /\ DeviceTransitPolicy_from_api_response(p) # None }
    \cup { Some(ApiPolicy(1, Some(ApiTransitPolicy(
                                      Some(<< ApiRule(NightCriteria,
                                                      ApiAction(Some(TRUE), None), None) >>),
                                      Some(FALSE))))) }

\* the event payloads that parse into an event
EvaluatedEvents ==
    { Get(e) : e \in { x \in ParseEvents :
                           /\ ~Event_from_api_response_raises(x)
                           /\ Event_from_api_response(x) # None } }

InitEvaluate ==
    /\ settings \in DeviceSettings
    /\ time_zone \in DeviceTimeZones
    /\ api_payload \in EvaluatedPolicies
    /\ device_transit_policy = Get(DeviceTransitPolicy_from_api_response(api_payload))
    /\ event = None
    /\ policy_result = NotYet
    /\ NothingCalled

NextEvaluate == \E api_event \in EvaluatedEvents : DeterminePolicyResult(api_event)

SpecEvaluate == InitEvaluate /\ [][NextEvaluate]_vars

\* no rule of the bound policy has criteria
NoRuleHasCriteria ==
    /\ HasTransitPolicy
    /\ \A i \in 1..Len(BoundRules) : BoundRules[i].criteria = None

\* C22: determine_policy_result always returns exactly one of UNKNOWN, LOCKED,
\* UNLOCKED and never raises, for every parsed policy bound to a device, every
\* combination of the two ignore flags and every event produced by
\* Event.from_api_response, an event with no rfidCodes field included; a rule
\* whose criteria is absent is skipped whatever the flags are.
C22_AlwaysAResult ==
    Evaluated =>
        /\ policy_result \in { "UNKNOWN", "LOCKED", "UNLOCKED" }
        /\ NoRuleHasCriteria => policy_result = IdleOutcome

----------------------------------------------------------------------------
(* Policies that differ only in the fields the evaluation carries along *)

\* values of idle_lock_battery, final, sound, lockout_duration, rfid_timeout
CarriedFields ==
    { [ idle_lock_battery |-> b, final |-> f, sound |-> snd, lockout_duration |-> l,
        rfid_timeout |-> t ] :
          b \in { None, Some(TRUE), Some(FALSE) },
          f \in { None, Some(TRUE) },
          snd \in { None, Some("alarm") },
          l \in { None, Some(5000) },
          t \in { None, Some(30) } }

\* the typed policy with the carried fields set to the given values
WithCarriedFields(policy, carried) ==
    IF policy.transit_policy = None THEN policy
    ELSE LET tp == Get(policy.transit_policy)
             rule_with(rule) ==
                 [ rule EXCEPT
                       !.action = Some([ Get(rule.action) EXCEPT
                                             !.final = carried.final,
                                             !.sound = carried.sound,
                                             !.lockout_duration = carried.lockout_duration ]),
                       !.criteria = Some([ Get(rule.criteria) EXCEPT
                                               !.rfid_timeout = carried.rfid_timeout ]) ]
         IN  [ policy EXCEPT !.transit_policy =
                   Some([ tp EXCEPT
                              !.idle_lock_battery = carried.idle_lock_battery,
                              !.rules = IF tp.rules = None THEN None
                                        ELSE Some([ i \in 1..Len(Get(tp.rules)) |->
                                                        rule_with(Get(tp.rules)[i]) ]) ]) ]

\* policies of at most one rule
CarriedPolicies ==
    { ApiPolicy(1, None) }
    \cup { ApiPolicy(1, Some(ApiTransitPolicy(None, Some(idle)))) : idle \in BOOLEAN }
    \cup { ApiPolicy(1, Some(ApiTransitPolicy(Some(<< rule >>), Some(idle)))) :
               rule \in DeviceRules, idle \in BOOLEAN }

InitCarried ==
    /\ settings \in DeviceSettings
    /\ time_zone \in DeviceTimeZones
    /\ api_payload \in { Some(p) : p \in CarriedPolicies }
    /\ \E carried \in CarriedFields :
           device_transit_policy =
               WithCarriedFields(Get(DeviceTransitPolicy_from_api_response(api_payload)),
                                 carried)
    /\ event = None
    /\ policy_result = NotYet
    /\ NothingCalled

NextCarried == \E api_event \in DeviceEvents : DeterminePolicyResult(api_event)

SpecCarried == InitCarried /\ [][NextCarried]_vars

\* the policy as parsed from the payload, before the carried fields were set
PlainPolicy == Get(DeviceTransitPolicy_from_api_response(api_payload))

\* C23: the result of determine_policy_result does not depend on
\* transit_policy.idle_lock_battery, on any rule's action.final, action.sound
\* or action.lockout_duration, or on any criteria rfid_timeout: the bound
\* policy and the policy that differs from it only in those fields give the
\* same result for the event and the device settings.
C23_CarriedFieldsDoNotDecide ==
    Evaluated =>
        policy_result = determine_policy_result(PlainPolicy, settings, time_zone, Get(event))

\* an evaluation of a policy whose carried fields all differ from the plain
\* policy's, with the battery override opposite to idle_lock
C23_Witness ==
    /\ Evaluated
    /\ HasTransitPolicy
    /\ BoundTransitPolicy.idle_lock = Some(TRUE)
    /\ BoundTransitPolicy.idle_lock_battery = Some(FALSE)
    /\ Len(BoundRules) = 1
    /\ Get(BoundRules[1].action).final = Some(TRUE)
    /\ Get(BoundRules[1].action).sound = Some("alarm")
    /\ Get(BoundRules[1].action).lockout_duration = Some(5000)
    /\ Get(BoundRules[1].criteria).rfid_timeout = Some(30)
    /\ device_transit_policy # PlainPolicy
    /\ policy_result = "LOCKED"

----------------------------------------------------------------------------
(* Policy updates interleaved with a running evaluation. The evaluation is
   split at every reading of the loop of determine_policy_result, so that an
   update may land between any two rules and before the idle default. *)

\* what the loop body of determine_policy_result does with one rule
rule_decision(rule, dev_settings, dev_time_zone, ev) ==
    IF ~Truthy(rule.enabled) THEN "CONTINUE"
    ELSE IF dev_settings.ignore_flap_motion_rules /\ rule.criteria = None
    THEN Raise
    ELSE IF /\ dev_settings.ignore_flap_motion_rules
            /\ Get(rule.criteria).flap_states # << >>
    THEN "CONTINUE"
    ELSE IF dev_settings.ignore_motion_sensor_rules /\ rule.criteria = None
    THEN Raise
    ELSE IF /\ dev_settings.ignore_motion_sensor_rules
            /\ Get(rule.criteria).motion_sensor_states # << >>
    THEN "CONTINUE"
    ELSE IF rule.criteria = None THEN "CONTINUE"
    ELSE LET m == matches(Get(rule.criteria), ev, dev_time_zone)
         IN  IF m = Raise THEN Raise
             ELSE IF m = "False" THEN "CONTINUE"
             ELSE rule_result(rule)

\* the tail of is_unlocked_by_event: a PolicyResult as bool | None
unlocked_of(policy_result_value) ==
    IF policy_result_value = Raise THEN Raised
    ELSE IF policy_result_value = "UNLOCKED" THEN Returned(Some(TRUE))
    ELSE IF policy_result_value = "LOCKED" THEN Returned(Some(FALSE))
    ELSE Returned(None)

\* an evaluation that looks the active policy up again at every reading
evaluated_object_live(bound, policies, policy_id) ==
    Device_device_transit_policy(policies, policy_id)

\* the object determine_policy_result runs on: self, the one object that
\* is_unlocked_by_event read from the property when it made the call
evaluated_object(bound, policies, policy_id) == bound

\* Device.update_device_transit_policy(transit_policy)
UpdateDeviceTransitPolicy(transit_policy) ==
    /\ device_transit_policies' =
           update_device_transit_policy(device_transit_policies, transit_policy)
    /\ listener_calls' =
           call_listeners(policy_update_listeners, device_transit_policies')
    /\ update_outcome' = Returned(None)
    /\ UNCHANGED device_transit_policy_id
    /\ active_policy' =
           Device_device_transit_policy(device_transit_policies', device_transit_policy_id')
    /\ UNCHANGED << settings, time_zone, device_transit_policy, event, policy_result,
                    criteria, match_result, time_range, at_timestamp, contains_result,
                    api_payload, criteria_payload, parsed, dict_out, reparsed,
                    unlocked, policy_update_listeners, eval_policy, eval_index,
                    parseVars, sensorVars >>

\* is_unlocked_by_event up to the first rule of the loop
BeginIsUnlockedByEvent(api_event) ==
    /\ eval_index = 0
    /\ event' = Event_from_api_response(Some(api_event))
    /\ LET dtp == Device_device_transit_policy(device_transit_policies,
                                               device_transit_policy_id)
       IN  IF Get(event').event_trigger_source = Some("REMOTE")
           THEN /\ unlocked' = Returned(Some(TRUE))
                /\ eval_policy' = None
                /\ eval_index' = 0
           ELSE IF dtp = None
           THEN /\ unlocked' = Raised
                /\ eval_policy' = None
                /\ eval_index' = 0
           ELSE /\ eval_policy' = dtp
                /\ IF Get(dtp).transit_policy = None
                   THEN /\ unlocked' = unlocked_of("UNKNOWN")
                        /\ eval_index' = 0
                   ELSE LET tp == Get(Get(dtp).transit_policy)
                        IN  IF tp.rules # None /\ Get(tp.rules) # << >>
                            THEN /\ unlocked' = CallNotMade
                                 /\ eval_index' = 1
                            ELSE /\ unlocked' = unlocked_of(idle_result(tp))
                                 /\ eval_index' = 0
    /\ UNCHANGED << settings, time_zone, device_transit_policy, policy_result,
                    criteria, match_result, time_range, at_timestamp, contains_result,
                    api_payload, criteria_payload, parsed, dict_out, reparsed,
                    device_transit_policy_id, device_transit_policies, active_policy,
                    policy_update_listeners, listener_calls, update_outcome,
                    parseVars, sensorVars >>

\* one pass of the loop of determine_policy_result, and the idle default
\* after the last rule
EvaluateRule ==
    /\ eval_index > 0
    /\ LET self  == Get(evaluated_object(eval_policy, device_transit_policies,
                                         device_transit_policy_id))
           rules == IF self.transit_policy = None \/ Get(self.transit_policy).rules = None
                    THEN << >>
                    ELSE Get(Get(self.transit_policy).rules)
           d     == IF self.transit_policy = None THEN "UNKNOWN"
                    ELSE IF eval_index > Len(rules) THEN "CONTINUE"
                    ELSE rule_decision(rules[eval_index], settings, time_zone, Get(event))
       IN  IF d = "CONTINUE" /\ eval_index < Len(rules)
           THEN /\ eval_index' = eval_index + 1
                /\ UNCHANGED unlocked
           ELSE /\ eval_index' = 0
                /\ unlocked' = unlocked_of(IF d = "CONTINUE"
                                           THEN idle_result(Get(self.transit_policy))
                                           ELSE d)
    /\ UNCHANGED << settings, time_zone, device_transit_policy, event, policy_result,
                    criteria, match_result, time_range, at_timestamp, contains_result,
                    api_payload, criteria_payload, parsed, dict_out, reparsed,
                    device_transit_policy_id, device_transit_policies, active_policy,
                    policy_update_listeners, listener_calls, update_outcome,
                    eval_policy, parseVars, sensorVars >>

\* the transit policies of the versions that are delivered
VersionTransitPolicies ==
    { None,
      Some(ApiTransitPolicy(None, Some(TRUE))),
      Some(ApiTransitPolicy(
               Some(<< ApiRule(ExitCriteria, ApiAction(Some(TRUE), None), None) >>),
               Some(FALSE))),
      Some(ApiTransitPolicy(
               Some(<< ApiRule(ExitCriteria, ApiAction(Some(FALSE), None), None),
                       ApiRule(NightCriteria, ApiAction(Some(TRUE), None), None) >>),
               Some(TRUE))),
      Some(ApiTransitPolicy(
               Some(<< ApiRule(NightCriteria, ApiAction(Some(FALSE), None), None),
                       ApiRule(AnyCriteria, ApiAction(Some(TRUE), None), None) >>),
               Some(FALSE))) }

\* policy versions, of the active id 1 and of another id
PolicyVersions ==
    { Get(DeviceTransitPolicy_from_api_response(Some(ApiPolicy(id, t)))) :
          id \in { 1, 2 }, t \in VersionTransitPolicies }

InitInterleave ==
    /\ settings \in DeviceSettings
    /\ time_zone \in DeviceTimeZones
    /\ device_transit_policy_id = Some(1)
    /\ \E version \in { v \in PolicyVersions : v.device_transit_policy_id = 1 } :
           device_transit_policies = update_device_transit_policy(None, version)
    /\ active_policy =
           Device_device_transit_policy(device_transit_policies, device_transit_policy_id)
    /\ unlocked = CallNotMade
    /\ NoListener
    /\ NoEvaluation
    /\ api_payload = None
    /\ device_transit_policy =
           Get(DeviceTransitPolicy_from_api_response(Some(ApiPolicy(1, None))))
    /\ policy_result = NotYet
    /\ event = None
    /\ criteria = None
    /\ match_result = NotYet
    /\ time_range = None
    /\ at_timestamp = None
    /\ contains_result = NotYet
    /\ criteria_payload = None
    /\ parsed = None
    /\ dict_out = None
    /\ reparsed = CallNotMade
    /\ NoParseCall
    /\ NoSensor

NextInterleave ==
    \/ \E version \in PolicyVersions : UpdateDeviceTransitPolicy(version)
    \/ \E api_event \in DeviceEvents : BeginIsUnlockedByEvent(api_event)
    \/ EvaluateRule

SpecInterleave == InitInterleave /\ [][NextInterleave]_vars

\* an evaluation of a non-remote event has come to its result
EvaluationDone ==
    /\ eval_policy # None
    /\ eval_index = 0
    /\ unlocked # CallNotMade

\* C24: with policy updates landing between any two steps of an evaluation,
\* every evaluation result is the result of evaluating, as a whole, the one
\* policy version the evaluation read from the active id when it began; that
\* version was bound under the active id at that moment
C24_EvaluationSeesOneVersion ==
    /\ [](EvaluationDone =>
              unlocked = unlocked_of(determine_policy_result(Get(eval_policy), settings,
                                                             time_zone, Get(event))))
    /\ [][eval_policy' # eval_policy /\ eval_policy' # None =>
              eval_policy' = Device_device_transit_policy(device_transit_policies,
                                                          device_transit_policy_id)]_vars

\* an evaluation finished on a version that an update has replaced meanwhile,
\* and the two versions disagree about the event
C24_Witness ==
    /\ EvaluationDone
    /\ active_policy # eval_policy
    /\ unlocked # unlocked_of(determine_policy_result(Get(active_policy), settings,
                                                      time_zone, Get(event)))

----------------------------------------------------------------------------
(* The device with policy update listeners: sensors register themselves,
   device and policy responses arrive in any order *)

\* a sensor registers its update_sensor on the device
AddPolicyUpdateListener(listener) ==
    /\ listener \notin Range(policy_update_listeners)
    /\ policy_update_listeners' =
           add_policy_update_listener(policy_update_listeners, listener)
    /\ UNCHANGED << settings, time_zone, device_transit_policy, event, policy_result,
                    criteria, match_result, time_range, at_timestamp, contains_result,
                    api_payload, criteria_payload, parsed, dict_out, reparsed,
                    device_transit_policy_id, device_transit_policies, active_policy,
                    unlocked, listener_calls, update_outcome, eval_policy, eval_index,
                    parseVars, sensorVars >>

\* the update_sensor callbacks of two policy sensors
PolicyListeners == { "sensor_1.update_sensor", "sensor_2.update_sensor" }

\* getDevice responses: complete, without timeZone and deviceTransitPolicyId,
\* and of another device
ListenerDevices ==
    { ApiDevice(Some(DeviceId), Some(2), Some(ZoneName(2))),
      ApiDevice(Some(DeviceId), None, None),
      ApiDevice(Some("OC-111111111111"), Some(1), None) }

ListenerTransitPolicies ==
    { Some(ApiTransitPolicy(None, Some(TRUE))),
      Some(ApiTransitPolicy(
               Some(<< ApiRule(ExitCriteria, ApiAction(Some(FALSE), None), None) >>),
               Some(FALSE))) }

\* policies handed to update_device_transit_policy
ListenerPolicies ==
    { Get(DeviceTransitPolicy_from_api_response(Some(ApiPolicy(id, t)))) :
          id \in { 1, 2 }, t \in ListenerTransitPolicies }

\* getDeviceTransitPolicy responses that parse to no policy: null, and one
\* without deviceTransitPolicyId
UnparsedPolicyUpdates ==
    { None,
      Some([ ApiPolicy(1, Some(ApiTransitPolicy(None, Some(TRUE))))
                 EXCEPT !.deviceTransitPolicyId = None ]) }

ListenerPolicyUpdates ==
    UnparsedPolicyUpdates
    \cup { Some(ApiPolicy(1, Some(ApiTransitPolicy(None, Some(FALSE))))) }

InitListeners ==
    /\ settings \in DeviceSettings
    /\ LET device == Get(Device_from_api_response(
                             Some(ApiDevice(Some(DeviceId), Some(1), Some(ZoneName(2)))),
                             None))
       IN  /\ time_zone = device.time_zone
           /\ device_transit_policy_id = device.device_transit_policy_id
           /\ device_transit_policies = device.device_transit_policies
           /\ policy_update_listeners = device.policy_update_listeners
    /\ listener_calls = << >>
    /\ update_outcome = CallNotMade
    /\ active_policy =
           Device_device_transit_policy(device_transit_policies, device_transit_policy_id)
    /\ unlocked = CallNotMade
    /\ NoEvaluation
    /\ api_payload = None
    /\ device_transit_policy =
           Get(DeviceTransitPolicy_from_api_response(Some(ApiPolicy(1, None))))
    /\ policy_result = NotYet
    /\ event = None
    /\ criteria = None
    /\ match_result = NotYet
    /\ time_range = None
    /\ at_timestamp = None
    /\ contains_result = NotYet
    /\ criteria_payload = None
    /\ parsed = None
    /\ dict_out = None
    /\ reparsed = CallNotMade
    /\ NoParseCall
    /\ NoSensor

NextListeners ==
    \/ \E listener \in PolicyListeners : AddPolicyUpdateListener(listener)
    \/ \E transit_policy \in ListenerPolicies : UpdateDeviceTransitPolicy(transit_policy)
    \/ \E data \in ListenerPolicyUpdates : UpdateDeviceTransitPolicyFromApi(data)
    \/ \E data \in ListenerDevices : UpdateDeviceFromApi(data)

SpecListeners == InitListeners /\ [][NextListeners]_vars

\* the policy map as a dict, the empty one when the field is None
PolicyMap(policies) == IF policies = None THEN << >> ELSE Get(policies)

\* C26: update_device_transit_policy(p) stores p under the key
\* p.device_transit_policy_id, leaves every other entry of the policy map and
\* the active policy id unchanged, and calls every registered listener exactly
\* once, in registration order, each finding the map already changed.
C26_UpdateStoresAndNotifies ==
    [][\A transit_policy \in ListenerPolicies :
           UpdateDeviceTransitPolicy(transit_policy) =>
               LET key == transit_policy.device_transit_policy_id
                   old == PolicyMap(device_transit_policies)
                   new == PolicyMap(device_transit_policies')
               IN  /\ DOMAIN new = DOMAIN old \cup { key }
                   /\ new[key] = transit_policy
                   /\ \A k \in DOMAIN old \ { key } : new[k] = old[k]
                   /\ device_transit_policy_id' = device_transit_policy_id
                   /\ Len(listener_calls') = Len(policy_update_listeners)
                   /\ \A i \in 1..Len(policy_update_listeners) :
                          /\ listener_calls'[i].listener = policy_update_listeners[i]
                          /\ listener_calls'[i].saw = device_transit_policies']_vars

\* two listeners were called, in their order, by an update that left a
\* second entry of the map in place
C26_Witness ==
    /\ update_outcome = Returned(None)
    /\ api_payload = None
    /\ Len(policy_update_listeners) = 2
    /\ Len(listener_calls) = 2
    /\ listener_calls[1].listener = policy_update_listeners[1]
    /\ listener_calls[2].listener = policy_update_listeners[2]
    /\ listener_calls[1].saw = device_transit_policies
    /\ Cardinality(DOMAIN PolicyMap(device_transit_policies)) = 2

\* C27: a listener registered with add_policy_update_listener stays
\* registered across update_device_from_api, so that a later
\* update_device_transit_policy still calls it.
C27_ListenersSurviveDeviceUpdate ==
    [][(\E data \in ListenerDevices : UpdateDeviceFromApi(data)) =>
           \A i \in 1..Len(policy_update_listeners) :
               policy_update_listeners[i] \in Range(policy_update_listeners')]_vars

\* C28: update_device_from_api changes only the fields whose value is present
\* in the payload: without timeZone the time zone stays, without
\* deviceTransitPolicyId the active id stays, the policy map and the settings
\* never change, and a payload of another device changes nothing.
C28_DeviceUpdateFrame ==
    [][\A data \in ListenerDevices :
           UpdateDeviceFromApi(data) =>
               IF data.deviceId # Some(DeviceId)
               THEN UNCHANGED << time_zone, device_transit_policy_id,
                                 device_transit_policies, settings,
                                 policy_update_listeners >>
               ELSE /\ data.timeZone = None => time_zone' = time_zone
                    /\ data.deviceTransitPolicyId = None =>
                           device_transit_policy_id' = device_transit_policy_id
                    /\ device_transit_policies' = device_transit_policies
                    /\ settings' = settings]_vars

\* C29: update_device_transit_policy_from_api with a payload that parses to
\* no policy (null, or without deviceTransitPolicyId) leaves the policy map
\* unchanged, calls no listener and does not raise.
C29_UnparsedPolicyIsIgnored ==
    [][\A data \in UnparsedPolicyUpdates :
           UpdateDeviceTransitPolicyFromApi(data) =>
               /\ device_transit_policies' = device_transit_policies
               /\ listener_calls' = << >>
               /\ update_outcome' # Raised]_vars

----------------------------------------------------------------------------
(* binary_sensor_human.py: OnlyCatHumanSensor. The sensor calls Event(),
   Event.update_from and EventUpdate.event, which the event.py at hand does
   not define; they are taken from the description of events: every
   attribute may be absent, and partial updates of one event merge. *)

\* str(n)
str(n) == ToString(n)

\* str(event.event_id) if event.event_id is not None else None
id_str(ev) == IF ev.event_id # None THEN Some(str(Get(ev.event_id))) ELSE None

\* Event.update_from(other): the attributes the update carries replace the
\* event's, the others stay
Event_update_from(self, other) ==
    [ k \in DOMAIN self |-> IF other[k] # None THEN other[k] ELSE self[k] ]

\* EventUpdate.from_api_response(data).event: the event parsed from the body
EventUpdate_event(data) == Event_from_api_response(data.body)

\* OnlyCatHumanSensor.determine_new_state(event): the new _attr_is_on and
\* _last_completed_event_id
determine_new_state(ev, on, last_completed) ==
    IF ev.frame_count # None
    THEN [ is_on |-> FALSE, last_completed_event_id |-> id_str(ev) ]
    ELSE IF ev.event_classification = Some("HUMAN_ACTIVITY")
    THEN [ is_on |-> TRUE, last_completed_event_id |-> last_completed ]
    ELSE [ is_on |-> FALSE, last_completed_event_id |-> last_completed ]

\* OnlyCatHumanSensor.on_event_update(data)
OnEventUpdate(data) ==
    /\ IF data.deviceId # DeviceId \/ EventUpdate_event(data) = None
       THEN UNCHANGED sensorVars
       ELSE LET ev         == Get(EventUpdate_event(data))
                new_id     == id_str(ev)
                current_id == id_str(current_event)
            IN  /\ completed_event_ids' =
                       IF ev.frame_count # None
                       THEN completed_event_ids \cup { new_id }
                       ELSE completed_event_ids
                /\ IF last_completed_event_id # None /\ new_id = last_completed_event_id
                   THEN UNCHANGED << is_on, current_event, last_completed_event_id >>
                   ELSE LET base  == IF current_id # None /\ current_id # new_id
                                     THEN NoEvent ELSE current_event
                            state == determine_new_state(Event_update_from(base, ev),
                                                         is_on, last_completed_event_id)
                        IN  /\ current_event' = Event_update_from(base, ev)
                            /\ is_on' = state.is_on
                            /\ last_completed_event_id' = state.last_completed_event_id
    /\ UNCHANGED << settings, time_zone, device_transit_policy, event, policy_result,
                    criteria, match_result, time_range, at_timestamp, contains_result,
                    api_payload, criteria_payload, parsed, dict_out, reparsed,
                    deviceVars, parseVars >>

\* an eventUpdate message: the envelope and the body, which carries the
\* event's id and the attributes that changed
ApiEventUpdate(device_id, id, frame_count, classification) ==
    [ deviceId |-> device_id,
      eventId  |-> id,
      body     |-> Some([ globalId |-> None, deviceId |-> None,
                          eventId |-> Some(id), timestamp |-> None,
                          frameCount |-> frame_count,
                          eventTriggerSource |-> None,
                          eventClassification |-> classification,
                          posterFrameIndex |-> None, accessToken |-> None,
                          rfidCodes |-> None ]) ]

\* updates of three events of this device, in progress and complete, with
\* and without a classification; one of another device; one without a body
EventUpdates ==
    { ApiEventUpdate(DeviceId, id, frame_count, classification) :
          id \in { 1, 2, 3 },
          frame_count \in { None, Some(0), Some(25) },
          classification \in { None, Some(1), Some(4) } }
    \cup { ApiEventUpdate("OC-111111111111", 1, None, Some(4)),
           [ deviceId |-> DeviceId, eventId |-> 1, body |-> None ] }

InitSensor ==
    /\ DeviceIdle
    /\ time_zone = 0
    /\ event = None
    /\ NothingCalled

NextSensor == \E data \in EventUpdates : OnEventUpdate(data)

SpecSensor == InitSensor /\ [][NextSensor]_vars

\* C30: once an update carrying frame_count has been handled for event id X,
\* no later update carrying event id X turns the sensor on, whatever updates
\* of other events came in between.
C30_CompletedEventStaysOff ==
    [][\A data \in EventUpdates :
           ( /\ OnEventUpdate(data)
             /\ data.deviceId = DeviceId
             /\ Some(str(data.eventId)) \in completed_event_ids ) =>
               ~(~is_on /\ is_on')]_vars

====
